---- MODULE Spec2Model ----
(***************************************************************************)
(* The WebSocket subscription hub of the HoLA agent                        *)
(* (agent/internal/ws): the per-connection multiplexer (handler.go), the   *)
(* broadcast hub (eventhub.go) and the stream adapters (streams.go).       *)
(*                                                                         *)
(* Strings the code builds by concatenation are modelled as a pair         *)
(* [pre, id]: the text pre followed by the text of container id number id, *)
(* where id 0 is the empty string.  "metrics" is Str("metrics", 0),        *)
(* "logs:" + ContainerID is Str("logs:", ContainerID).                     *)
(* A context.Context made by context.WithCancel is the record              *)
(* [client, key, n]: the n-th context made for that key of that client.    *)
(* The cancel function the map stores is the same record; calling it puts  *)
(* the record in the set cancelled.                                        *)
(***************************************************************************)
EXTENDS Integers, Sequences, FiniteSets, TLC

\* ---- bounds of the model ----
MaxClients == 1      \* connections accepted in one behaviour
NumContainers == 4   \* distinct non-empty container ids a client may name
MaxCtx == 4          \* contexts created in one behaviour
MaxEvents == 1       \* upstream events broadcast in one behaviour
MaxHubClients == 3   \* connections of the hub exercised on its own
MaxOpens == 2        \* upstream event subscriptions Run opens in one behaviour

\* ---- program constants ----
MaxLogSubscriptions == 3     \* handler.go: if logCount >= 3

VARIABLES
    hubNil,         \* Handler.eventHub == nil (NewHandler(nil), as the tests build it)
    clients,        \* number of client structs created so far (ServeHTTP accepted)
    open,           \* clients whose readLoop is still running
    subscriptions,  \* client.subscriptions: per client, key -> cancel handle
    made,           \* per client and key: contexts context.WithCancel made for it
    cancelled,      \* contexts whose cancel function has been called
    task,           \* goroutines started by `go stream...`: ctx -> position
    subscribers,    \* EventHub.subscribers: client -> ctx of its registration
    pass,           \* the broadcast pass in progress (holds h.mu.RLock): the
                    \* records still to visit, the client whose socket the hub is
                    \* writing to, the clients whose send failed
    hubSends,       \* per client: sends the hub attempted (client.send calls)
    events,         \* upstream events listenOnce handed to broadcast
    run,            \* EventHub.Run: its position, whether its ctx is cancelled, and
                    \* the upstream subscriptions it has opened
    stats,          \* one call of streamContainerStats (see StatsSpec)
    cpu,            \* one call of calculateCPUPercent (see CpuSpec)
    frames,         \* one upstream log stream read by streamLogs (see LogSpec)
    metrics,        \* one call of streamMetrics (see MetricsSpec)
    evt,            \* one upstream event handled by listenOnce (see EventSpec)
    logLine,        \* one frame payload made into a LogLine (see LineSpec)
    wire,           \* the writes of three producers to one socket (see OrderSpec)
    mem,            \* the memory figures of one decoded sample (see MemSpec)
    app,            \* the mobile client's WebSocketClient (see AppSpec)
    last            \* the last exchange on a socket: the inbound message handled and
                    \* the envelopes sent for it, or one envelope pushed

vars == <<hubNil, clients, open, subscriptions, made, cancelled, task,
          subscribers, pass, hubSends, events, run, stats, cpu, frames,
          metrics,
          evt,
          logLine,
          wire,
          mem,
          app, last>>

\* The functions that are exercised on their own, outside the connection
\* handler.
unitVars == <<stats, cpu, frames, metrics, evt, logLine, wire, mem, app>>

\* ---- strings, keys, maps ----
Clients == 1..MaxClients
ContainerIDs == 0..NumContainers
NoID == 0
Str(pre, id) == [pre |-> pre, id |-> id]

EmptyMap == [x \in {} |-> 0]
Put(f, k, v) == [x \in (DOMAIN f) \cup {k} |-> IF x = k THEN v ELSE f[x]]
Del(f, k) == [x \in (DOMAIN f) \ {k} |-> f[x]]
Range(f) == {f[x] : x \in DOMAIN f}

\* ---- inbound messages (Message, SubscribePayload) ----
Streams ==
    {Str("metrics", NoID), Str("events", NoID), Str("logs", NoID), Str("nope", NoID),
     Str("logs:", 1)}

Keys ==
    {Str("metrics", NoID), Str("events", NoID)} \cup {Str("logs:", i) : i \in 1..NumContainers}

\* A payload that does not unmarshal has no fields; a stream that already
\* spells a whole key comes with no container id.
SubscribePayload ==
    {[bad |-> TRUE, Stream |-> Str("", NoID), ContainerID |-> NoID]}
    \cup {[bad |-> FALSE, Stream |-> s, ContainerID |-> NoID] : s \in Streams}
    \cup {[bad |-> FALSE, Stream |-> Str("logs", NoID), ContainerID |-> i] :
            i \in 1..NumContainers}
    \cup {[bad |-> FALSE, Stream |-> Str("container_stats", NoID), ContainerID |-> 1]}

RequestIDs == {"r1"}

Message ==
    {[Type |-> t, ID |-> i, Payload |-> p] :
        t \in {"subscribe", "unsubscribe"}, i \in RequestIDs, p \in SubscribePayload}
    \cup {[Type |-> t, ID |-> i, Payload |-> [bad |-> TRUE, Stream |-> Str("", NoID), ContainerID |-> NoID]] :
        t \in {"ping", "foobar"}, i \in RequestIDs}

\* ---- outbound envelopes ----
\* A subscribed acknowledgement without the ID field.
SubscribedNoID(id) == [Type |-> "subscribed", ID |-> "", Code |-> "", Status |-> ""]

ErrorPayload(code) == [Type |-> "error", ID |-> "", Code |-> code, Status |-> ""]
Subscribed(id) == [Type |-> "subscribed", ID |-> id, Code |-> "", Status |-> ""]
Unsubscribed(id) == [Type |-> "subscribed", ID |-> id, Code |-> "", Status |-> "unsubscribed"]
Pong == [Type |-> "pong", ID |-> "", Code |-> "", Status |-> ""]
\* Pushes: Message{Type: ..., Payload: ...}, written by the adapters and the hub.
Push(type) == [Type |-> type, ID |-> "", Code |-> "", Status |-> ""]

NoPass == [active |-> FALSE, todo |-> {}, calling |-> 0, sending |-> 0, failed |-> {}]
\* go eventHub.Run(ctx) in main: Run is in listenOnce on its first upstream
\* subscription.  With a nil hub there is no Run.
NoRun == [pos |-> "none", cancelled |-> FALSE, opened |-> 0]
Running == [pos |-> "listening", cancelled |-> FALSE, opened |-> 1]
NoStats == [pos |-> "none"]
NoCPU == [pos |-> "none"]
NoFrames == [pos |-> "none"]
NoApp == [pos |-> "none"]
NoMem == [pos |-> "none"]
NoWire == [pos |-> "none"]
NoLogLine == [pos |-> "none"]
NoEvt == [pos |-> "none"]
NoMetrics == [pos |-> "none"]
NoMessage == [Type |-> "", ID |-> "", Payload |-> [bad |-> TRUE, Stream |-> Str("", NoID), ContainerID |-> NoID]]
NoLast == [client |-> 0, msg |-> NoMessage, before |-> << >>, resp |-> << >>, panic |-> FALSE]

Init ==
    /\ hubNil \in BOOLEAN
    /\ clients = 0
    /\ open = {}
    /\ subscriptions = [c \in Clients |-> EmptyMap]
    /\ made = [c \in Clients |-> [k \in Keys |-> 0]]
    /\ cancelled = {}
    /\ task = EmptyMap
    /\ subscribers = EmptyMap
    /\ pass = NoPass
    /\ hubSends = [c \in Clients |-> 0]
    /\ events = 0
    /\ run = IF hubNil THEN NoRun ELSE Running
    /\ stats = NoStats
    /\ cpu = NoCPU
    /\ frames = NoFrames
    /\ metrics = NoMetrics
    /\ evt = NoEvt
    /\ logLine = NoLogLine
    /\ wire = NoWire
    /\ mem = NoMem
    /\ app = NoApp
    /\ last = NoLast

\* ---- contexts ----
Ctx(c, key, n) == [client |-> c, key |-> key, n |-> n]
created == UNION {{Ctx(c, k, n) : n \in 1..made[c][k]} : c \in DOMAIN made, k \in Keys}
NewCtx(c, key) == Ctx(c, key, made[c][key] + 1)
WithCancel(c, key) ==
    /\ Cardinality(created) < MaxCtx
    /\ made' = [made EXCEPT ![c][key] = @ + 1]
Done(x) == x \in cancelled

\* ---- client ----
\* c.mu.Lock() without the lock.
LockNotTaken(c) == TRUE

\* c.mu.Lock() in client.send returns when no other sender is inside send for
\* c.  The hub is inside it from broadcast to broadcastSend; every other
\* sender locks, writes and unlocks in one step.
Lock(c) == pass.sending # c

Respond(c, msg, envelopes) ==
    /\ Lock(c)
    /\ last' = [client |-> c, msg |-> msg, before |-> << >>, resp |-> envelopes,
                panic |-> FALSE]

\* One envelope written to the socket of c by a goroutine other than the
\* read loop of c.
Pushed(c, envelope) ==
    /\ last = NoLast
    /\ last' = [client |-> c, msg |-> NoMessage, before |-> << >>, resp |-> <<envelope>>,
                panic |-> FALSE]

\* client.send called by an adapter.
send(c, envelope) ==
    /\ Lock(c)
    /\ Pushed(c, envelope)

\* cancelAll with the call of cancel() left out of the loop body.
cancelAllDeleteOnly(c, subs) ==
    /\ cancelled' = cancelled
    /\ subscriptions' = [subscriptions EXCEPT ![c] = EmptyMap]

cancelAll(c, subs) ==
    /\ cancelled' = cancelled \cup Range(subs)
    /\ subscriptions' = [subscriptions EXCEPT ![c] = EmptyMap]

\* ---- EventHub registration ----
Subscribe(x, c) ==
    /\ ~pass.active
    /\ subscribers' = Put(subscribers, c, x)

\* Unsubscribe that replaces the map by an empty one.
UnsubscribeClearsMap(c) ==
    /\ ~pass.active
    /\ subscribers' = EmptyMap

Unsubscribe(c) ==
    /\ ~pass.active
    /\ subscribers' = Del(subscribers, c)

\* ---- Handler.handleSubscribe ----
\* logCount with the prefix compared against "logs" instead of "logs:".
logCountWrongPrefix(subs) ==
    Cardinality({k \in DOMAIN subs : k.pre = "logs" /\ k.id # NoID})

logCount(subs) ==
    Cardinality({k \in DOMAIN subs : k.pre = "logs:" /\ k.id # NoID})

Reject(c, msg, code) ==
    /\ Respond(c, msg, <<ErrorPayload(code)>>)
    /\ UNCHANGED <<open, subscriptions, made, cancelled, task, subscribers>>

\* `go stream...(subCtx, c, ...)` followed by the c.send of the acknowledgement.
\* Nothing orders the first write of the new goroutine after that send: first
\* ranges over what the goroutine may have done by the time the
\* acknowledgement is on the wire (its position and the envelopes it wrote).
goThenAck(c, msg, x, first) ==
    \E f \in first :
        /\ Lock(c)
        /\ task' = Put(task, x, f.pos)
        /\ last' = [client |-> c, msg |-> msg, before |-> f.wrote,
                    resp |-> <<Subscribed(msg.ID)>>, panic |-> FALSE]

subscribeMetrics(c, msg) ==
    LET subKey == Str("metrics", NoID) IN
    IF subKey \in DOMAIN subscriptions[c]
    THEN Reject(c, msg, "ALREADY_SUBSCRIBED")
    ELSE /\ WithCancel(c, subKey)
         /\ subscriptions' = [subscriptions EXCEPT ![c] = Put(@, subKey, NewCtx(c, subKey))]
         /\ goThenAck(c, msg, NewCtx(c, subKey),
                      {[pos |-> "spawned", wrote |-> << >>],
                       [pos |-> "running", wrote |-> <<Push("metrics")>>]})
         /\ UNCHANGED <<open, cancelled, subscribers>>

\* subscribeEvents with the cancel handle stored before the test of the hub
\* reference.
subscribeEventsStoresFirst(c, msg) ==
    LET subKey == Str("events", NoID) IN
    IF subKey \in DOMAIN subscriptions[c]
    THEN Reject(c, msg, "ALREADY_SUBSCRIBED")
    ELSE /\ WithCancel(c, subKey)
         /\ subscriptions' = [subscriptions EXCEPT ![c] = Put(@, subKey, NewCtx(c, subKey))]
         /\ IF hubNil
            THEN /\ Respond(c, msg, <<ErrorPayload("NOT_AVAILABLE")>>)
                 /\ UNCHANGED subscribers
            ELSE /\ Subscribe(NewCtx(c, subKey), c)
                 /\ Respond(c, msg, <<Subscribed(msg.ID)>>)
         /\ UNCHANGED <<open, cancelled, task>>

subscribeEvents(c, msg) ==
    LET subKey == Str("events", NoID) IN
    IF subKey \in DOMAIN subscriptions[c]
    THEN Reject(c, msg, "ALREADY_SUBSCRIBED")
    ELSE IF hubNil
    THEN Reject(c, msg, "NOT_AVAILABLE")
    ELSE /\ WithCancel(c, subKey)
         /\ subscriptions' = [subscriptions EXCEPT ![c] = Put(@, subKey, NewCtx(c, subKey))]
         /\ Subscribe(NewCtx(c, subKey), c)
         /\ Respond(c, msg, <<Subscribed(msg.ID)>>)
         /\ UNCHANGED <<open, cancelled, task>>

\* With a nil hub the argument h.eventHub.dockerClient of the go statement
\* panics after the cancel handle is stored: no goroutine starts, no envelope
\* is sent, and the deferred cancelAll and conn.Close of ServeHTTP run.
subscribeLogs(c, msg) ==
    LET subKey == Str("logs:", msg.Payload.ContainerID) IN
    IF msg.Payload.ContainerID = NoID
    THEN Reject(c, msg, "MISSING_CONTAINER_ID")
    ELSE IF logCount(subscriptions[c]) >= MaxLogSubscriptions
    THEN Reject(c, msg, "LIMIT_EXCEEDED")
    ELSE IF subKey \in DOMAIN subscriptions[c]
    THEN Reject(c, msg, "ALREADY_SUBSCRIBED")
    ELSE /\ WithCancel(c, subKey)
         /\ IF hubNil
            THEN /\ cancelAll(c, Put(subscriptions[c], subKey, NewCtx(c, subKey)))
                 /\ open' = open \ {c}
                 /\ last' = [client |-> c, msg |-> msg, before |-> << >>, resp |-> << >>,
                             panic |-> TRUE]
                 /\ UNCHANGED <<task, subscribers>>
            ELSE /\ subscriptions' = [subscriptions EXCEPT ![c] = Put(@, subKey, NewCtx(c, subKey))]
                 /\ goThenAck(c, msg, NewCtx(c, subKey),
                              {[pos |-> "spawned", wrote |-> << >>],
                               [pos |-> "running", wrote |-> <<Push("log_line")>>],
                               [pos |-> "returned",
                                wrote |-> <<ErrorPayload("LOG_STREAM_ERROR")>>]})
                 /\ UNCHANGED <<open, cancelled, subscribers>>

handleSubscribe(c, msg) ==
    IF msg.Payload.bad THEN Reject(c, msg, "BAD_PAYLOAD")
    ELSE IF msg.Payload.Stream = Str("metrics", NoID) THEN subscribeMetrics(c, msg)
    ELSE IF msg.Payload.Stream = Str("events", NoID) THEN subscribeEvents(c, msg)
    ELSE IF msg.Payload.Stream = Str("logs", NoID) THEN subscribeLogs(c, msg)
    ELSE Reject(c, msg, "UNKNOWN_STREAM")

\* ---- Handler.handleUnsubscribe ----
unsubscribeKey(payload) ==
    IF payload.Stream = Str("logs", NoID) /\ payload.ContainerID # NoID
    THEN Str("logs:", payload.ContainerID)
    ELSE payload.Stream

\* handleUnsubscribe with the return after the NOT_SUBSCRIBED reply left out:
\* the nil cancel function is called, which panics, and the deferred
\* cancelAll and conn.Close run.
handleUnsubscribeNoReturn(c, msg) ==
    LET subKey == unsubscribeKey(msg.Payload) IN
    IF msg.Payload.bad THEN Reject(c, msg, "BAD_PAYLOAD")
    ELSE IF subKey \notin DOMAIN subscriptions[c]
    THEN /\ Respond(c, msg, <<ErrorPayload("NOT_SUBSCRIBED")>>)
         /\ cancelAll(c, subscriptions[c])
         /\ open' = open \ {c}
         /\ UNCHANGED <<made, task, subscribers>>
    ELSE /\ cancelled' = cancelled \cup {subscriptions[c][subKey]}
         /\ subscriptions' = [subscriptions EXCEPT ![c] = Del(@, subKey)]
         /\ Respond(c, msg, <<Unsubscribed(msg.ID)>>)
         /\ UNCHANGED <<open, made, task, subscribers>>

\* handleUnsubscribe with cancelAll called in place of the one cancel().
handleUnsubscribeCancelsAll(c, msg) ==
    LET subKey == unsubscribeKey(msg.Payload) IN
    IF msg.Payload.bad THEN Reject(c, msg, "BAD_PAYLOAD")
    ELSE IF subKey \notin DOMAIN subscriptions[c]
    THEN Reject(c, msg, "NOT_SUBSCRIBED")
    ELSE /\ cancelled' = cancelled \cup Range(subscriptions[c])
         /\ subscriptions' = [subscriptions EXCEPT ![c] = Del(@, subKey)]
         /\ Respond(c, msg, <<Unsubscribed(msg.ID)>>)
         /\ UNCHANGED <<open, made, task, subscribers>>

\* handleUnsubscribe with the call of cancel() left out.
handleUnsubscribeDeleteOnly(c, msg) ==
    LET subKey == unsubscribeKey(msg.Payload) IN
    IF msg.Payload.bad THEN Reject(c, msg, "BAD_PAYLOAD")
    ELSE IF subKey \notin DOMAIN subscriptions[c]
    THEN Reject(c, msg, "NOT_SUBSCRIBED")
    ELSE /\ subscriptions' = [subscriptions EXCEPT ![c] = Del(@, subKey)]
         /\ Respond(c, msg, <<Unsubscribed(msg.ID)>>)
         /\ UNCHANGED <<open, made, cancelled, task, subscribers>>

handleUnsubscribe(c, msg) ==
    LET subKey == unsubscribeKey(msg.Payload) IN
    IF msg.Payload.bad THEN Reject(c, msg, "BAD_PAYLOAD")
    ELSE IF subKey \notin DOMAIN subscriptions[c]
    THEN Reject(c, msg, "NOT_SUBSCRIBED")
    ELSE /\ cancelled' = cancelled \cup {subscriptions[c][subKey]}
         /\ subscriptions' = [subscriptions EXCEPT ![c] = Del(@, subKey)]
         /\ Respond(c, msg, <<Unsubscribed(msg.ID)>>)
         /\ UNCHANGED <<open, made, task, subscribers>>

\* ---- Handler.ServeHTTP and Handler.readLoop ----
hubVars == <<pass, hubSends, events>>

ServeHTTP(c) ==
    /\ last = NoLast
    /\ c = clients + 1
    /\ clients < MaxClients
    /\ clients' = c
    /\ open' = open \cup {c}
    /\ subscriptions' = [subscriptions EXCEPT ![c] = EmptyMap]
    /\ UNCHANGED <<hubNil, made, cancelled, task, subscribers, last, hubVars, run, unitVars>>

\* Container ids are opaque to the handler, which only compares them: a
\* connection names a container id it has no context for yet in increasing
\* order, which leaves one behaviour of every class of renamings.
Named(c) == {i \in 1..NumContainers : made[c][Str("logs:", i)] > 0}

\* readLoop with a ping that also cancels the subscriptions.
readLoopPingCancels(c, msg) ==
    /\ c \in open
    /\ last = NoLast
    /\ msg.Payload.ContainerID <= Cardinality(Named(c)) + 1
    /\ CASE msg.Type = "subscribe" -> handleSubscribe(c, msg)
         [] msg.Type = "unsubscribe" -> handleUnsubscribe(c, msg)
         [] msg.Type = "ping" ->
                /\ Respond(c, msg, <<Pong>>)
                /\ cancelAll(c, subscriptions[c])
                /\ UNCHANGED <<open, made, task, subscribers>>
         [] OTHER -> Reject(c, msg, "UNKNOWN_TYPE")
    /\ UNCHANGED <<hubNil, clients, hubVars, run, unitVars>>

readLoop(c, msg) ==
    /\ c \in open
    /\ last = NoLast
    /\ msg.Payload.ContainerID <= Cardinality(Named(c)) + 1
    /\ CASE msg.Type = "subscribe" -> handleSubscribe(c, msg)
         [] msg.Type = "unsubscribe" -> handleUnsubscribe(c, msg)
         [] msg.Type = "ping" ->
                /\ Respond(c, msg, <<Pong>>)
                /\ UNCHANGED <<open, subscriptions, made, cancelled, task, subscribers>>
         [] OTHER -> Reject(c, msg, "UNKNOWN_TYPE")
    /\ UNCHANGED <<hubNil, clients, hubVars, run, unitVars>>

\* wsjson.Read fails (client went away, close frame, request context
\* cancelled): readLoop returns and the deferred cancelAll and conn.Close run.
readLoopExit(c) ==
    /\ c \in open
    /\ last = NoLast
    /\ open' = open \ {c}
    /\ cancelAll(c, subscriptions[c])
    /\ UNCHANGED <<hubNil, clients, made, task, subscribers, last, hubVars, run, unitVars>>

\* The loop is back in wsjson.Read (or, after a panic, the handler goroutine
\* is gone): the exchange recorded in last is over.  last is a history
\* variable, so this step is always possible and changes nothing else; the
\* guards last = NoLast of the connection and adapter steps only place them
\* between two recorded exchanges.
readLoopRead ==
    /\ last # NoLast
    /\ last' = NoLast
    /\ UNCHANGED <<hubNil, clients, open, subscriptions, made, cancelled, task,
                   subscribers, hubVars, run, unitVars>>

\* ---- stream adapters ----
\* A goroutine started by `go streamMetrics(...)` or `go streamLogs(...)` is
\* "spawned" until its first call returns (the initial sendMetrics, or
\* StreamContainerLogs), then "running" in its loop until it has "returned".
IsLogsKey(k) == k.pre = "logs:"

taskVarsOnly == <<hubNil, clients, open, subscriptions, made, cancelled,
                  subscribers, hubVars, run, unitVars>>

\* The initial snapshot of streamMetrics.  sendMetrics writes nothing when
\* metrics.Collect or the write fails, as both do on a cancelled context.
streamMetrics(x, delivered) ==
    /\ last = NoLast
    /\ x \in DOMAIN task /\ task[x] = "spawned"
    /\ ~IsLogsKey(x.key)
    /\ delivered => ~Done(x)
    /\ task' = [task EXCEPT ![x] = "running"]
    /\ IF delivered THEN send(x.client, Push("metrics")) ELSE UNCHANGED last
    /\ UNCHANGED taskVarsOnly

\* case <-ticker.C: sendMetrics(ctx, c), when the snapshot reaches the socket.
sendMetrics(x) ==
    /\ x \in DOMAIN task /\ task[x] = "running"
    /\ ~IsLogsKey(x.key)
    /\ ~Done(x)
    /\ send(x.client, Push("metrics"))
    /\ UNCHANGED task
    /\ UNCHANGED taskVarsOnly

\* case <-ctx.Done(): return, in the loop of streamMetrics or streamLogs.
streamCancelled(x) ==
    /\ last = NoLast
    /\ x \in DOMAIN task /\ task[x] = "running"
    /\ Done(x)
    /\ task' = [task EXCEPT ![x] = "returned"]
    /\ UNCHANGED last
    /\ UNCHANGED taskVarsOnly

\* streamLogs up to the return of StreamContainerLogs.  On an error it sends
\* an error envelope with code LOG_STREAM_ERROR and returns; the envelope
\* reaches the socket unless the write fails, as it does on a cancelled
\* context.
streamLogs(x, opened, delivered) ==
    /\ last = NoLast
    /\ x \in DOMAIN task /\ task[x] = "spawned"
    /\ IsLogsKey(x.key)
    /\ delivered => (~opened /\ ~Done(x))
    /\ task' = [task EXCEPT ![x] = IF opened THEN "running" ELSE "returned"]
    /\ IF delivered THEN send(x.client, ErrorPayload("LOG_STREAM_ERROR"))
       ELSE UNCHANGED last
    /\ UNCHANGED taskVarsOnly

\* One frame read and sent as a log_line.
streamLogsLine(x) ==
    /\ x \in DOMAIN task /\ task[x] = "running"
    /\ IsLogsKey(x.key)
    /\ ~Done(x)
    /\ send(x.client, Push("log_line"))
    /\ UNCHANGED task
    /\ UNCHANGED taskVarsOnly

\* streamLogsReturn that removes the key of the follower from the map.
streamLogsReturnDeletesKey(x) ==
    /\ last = NoLast
    /\ x \in DOMAIN task /\ task[x] = "running"
    /\ IsLogsKey(x.key)
    /\ task' = [task EXCEPT ![x] = "returned"]
    /\ subscriptions' = [subscriptions EXCEPT ![x.client] = Del(@, x.key)]
    /\ UNCHANGED <<hubNil, clients, open, made, cancelled, subscribers, hubVars, run,
                   unitVars, last>>

\* streamLogs returns on its own from its loop: io.ReadFull fails on a header
\* or a payload (upstream read error), or the send of a log line fails.  None
\* of these paths touches the map.
streamLogsReturn(x) ==
    /\ last = NoLast
    /\ x \in DOMAIN task /\ task[x] = "running"
    /\ IsLogsKey(x.key)
    /\ task' = [task EXCEPT ![x] = "returned"]
    /\ UNCHANGED last
    /\ UNCHANGED taskVarsOnly

\* ---- EventHub.listenOnce and EventHub.broadcast ----
allowedActions == {"start", "stop", "die", "kill", "restart", "create", "destroy"}
UpstreamTypes == {"container", "image"}
UpstreamActions == {"start", "exec_start"}

connVarsOnly == <<hubNil, clients, open, subscriptions, made, cancelled, task,
                  subscribers, run, unitVars>>

\* One message from msgCh; broadcast takes the read lock for the pass.
listenOnce(type, action) ==
    /\ ~hubNil
    /\ run.pos = "listening"
    /\ ~pass.active
    /\ events < MaxEvents
    /\ IF type = "container" /\ action \in allowedActions
       THEN /\ events' = events + 1
            /\ pass' = [active |-> TRUE, todo |-> DOMAIN subscribers, calling |-> 0,
                        sending |-> 0, failed |-> {}]
       ELSE UNCHANGED <<events, pass>>
    /\ UNCHANGED <<hubSends, last>>
    /\ UNCHANGED connVarsOnly

\* broadcast without the select on sub.ctx.Done().
broadcastNoDoneCheck(c) ==
    /\ pass.active /\ pass.calling = 0 /\ pass.sending = 0
    /\ c \in pass.todo
    /\ pass' = [pass EXCEPT !.todo = @ \ {c}, !.calling = c]
    /\ hubSends' = [hubSends EXCEPT ![c] = @ + 1]
    /\ UNCHANGED <<events, last>>
    /\ UNCHANGED connVarsOnly

\* One iteration of the range over h.subscribers, in whatever order the map
\* yields its entries, up to the call of sub.client.send: the select on
\* sub.ctx.Done() has been passed and the hub goroutine, holding the read
\* lock, is about to take the mutex of c.
broadcast(c) ==
    /\ pass.active /\ pass.calling = 0 /\ pass.sending = 0
    /\ c \in pass.todo
    /\ IF Done(subscribers[c])
       THEN /\ pass' = [pass EXCEPT !.todo = @ \ {c}]
            /\ UNCHANGED hubSends
       ELSE /\ pass' = [pass EXCEPT !.todo = @ \ {c}, !.calling = c]
            /\ hubSends' = [hubSends EXCEPT ![c] = @ + 1]
    /\ UNCHANGED <<events, last>>
    /\ UNCHANGED connVarsOnly

\* c.mu.Lock() in the client.send the hub called: the hub goroutine is then
\* inside wsjson.Write on the socket of the client.  The other senders write
\* in one step, so the mutex is free whenever the hub asks for it.
broadcastLock ==
    /\ pass.active /\ pass.calling # 0 /\ pass.sending = 0
    /\ pass' = [pass EXCEPT !.calling = 0, !.sending = pass.calling]
    /\ UNCHANGED <<hubSends, events, last>>
    /\ UNCHANGED connVarsOnly

\* broadcastSend that gives up the pass on a failed send.
broadcastSendStopsOnError(err) ==
    /\ pass.active /\ pass.sending # 0
    /\ ~err => pass.sending \in open
    /\ IF err
       THEN /\ pass' = [pass EXCEPT !.sending = 0, !.failed = @ \cup {pass.sending},
                                    !.todo = {}]
            /\ UNCHANGED last
       ELSE /\ pass' = [pass EXCEPT !.sending = 0]
            /\ Pushed(pass.sending, Push("container_event"))
    /\ UNCHANGED <<hubSends, events>>
    /\ UNCHANGED connVarsOnly

\* sub.client.send returns: the write to the socket has completed, or has
\* failed (it always fails on a closed connection); a failure is logged and
\* the range goes on.
broadcastSend(err) ==
    /\ pass.active /\ pass.sending # 0
    /\ ~err => pass.sending \in open
    /\ IF err
       THEN /\ pass' = [pass EXCEPT !.sending = 0, !.failed = @ \cup {pass.sending}]
            /\ UNCHANGED last
       ELSE /\ pass' = [pass EXCEPT !.sending = 0]
            /\ Pushed(pass.sending, Push("container_event"))
    /\ UNCHANGED <<hubSends, events>>
    /\ UNCHANGED connVarsOnly

\* The range is exhausted: broadcast returns and releases the read lock.
broadcastReturn ==
    /\ pass.active /\ pass.calling = 0 /\ pass.sending = 0
    /\ pass.todo = {}
    /\ pass' = NoPass
    /\ UNCHANGED <<hubSends, events, last>>
    /\ UNCHANGED connVarsOnly

Next ==
    \/ \E c \in Clients : ServeHTTP(c)
    \/ \E c \in Clients, msg \in Message : readLoop(c, msg)
    \/ \E c \in Clients : readLoopExit(c)
    \/ readLoopRead
    \/ \E x \in DOMAIN task, delivered \in BOOLEAN : streamMetrics(x, delivered)
    \/ \E x \in DOMAIN task : sendMetrics(x)
    \/ \E x \in DOMAIN task : streamCancelled(x)
    \/ \E x \in DOMAIN task, opened, delivered \in BOOLEAN : streamLogs(x, opened, delivered)
    \/ \E x \in DOMAIN task : streamLogsLine(x)
    \/ \E x \in DOMAIN task : streamLogsReturn(x)
    \/ \E t \in UpstreamTypes, a \in UpstreamActions : listenOnce(t, a)
    \/ \E c \in Clients : broadcast(c)
    \/ \E err \in BOOLEAN : broadcastSend(err)
    \/ broadcastLock
    \/ broadcastReturn

Spec == Init /\ [][Next]_vars

\* ---- EventHub.Run ----
runVarsOnly == <<hubNil, clients, open, subscriptions, made, cancelled, task,
                 subscribers, hubVars, unitVars, last>>

\* case err := <-errCh in listenOnce: the upstream stream has failed or ended
\* (the Docker client reports the end of the stream as an error on errCh).
\* listenOnce returns and Run waits in its second select.
listenOnceError ==
    /\ run.pos = "listening"
    /\ ~pass.active
    /\ run.opened < MaxOpens
    /\ run' = [run EXCEPT !.pos = "backoff"]
    /\ UNCHANGED runVarsOnly

\* RunBackoff that returns after the pause in place of going round the loop.
RunBackoffGivesUp ==
    /\ run.pos = "backoff"
    /\ run' = [run EXCEPT !.pos = "returned"]
    /\ UNCHANGED runVarsOnly

\* case <-time.After(2 * time.Second), then the top of the loop of Run: it
\* returns when ctx is done and calls listenOnce otherwise, which opens a new
\* upstream subscription with dockerClient.Events.
RunBackoff ==
    /\ run.pos = "backoff"
    /\ run' = IF run.cancelled
              THEN [run EXCEPT !.pos = "returned"]
              ELSE [run EXCEPT !.pos = "listening", !.opened = @ + 1]
    /\ UNCHANGED runVarsOnly

\* case <-ctx.Done(): return, in the select of listenOnce and then of Run, or
\* in the second select of Run.
RunCancelled ==
    /\ run.pos \in {"listening", "backoff"}
    /\ run.cancelled
    /\ ~pass.active
    /\ run' = [run EXCEPT !.pos = "returned"]
    /\ UNCHANGED runVarsOnly

\* The context handed to Run is cancelled (the agent shuts down).
cancelRun ==
    /\ run.pos # "none"
    /\ ~run.cancelled
    /\ run' = [run EXCEPT !.cancelled = TRUE]
    /\ UNCHANGED runVarsOnly

\* ---- the EventHub on its own ----
\* The hub with MaxHubClients connections that send nothing, driven through
\* its exported methods as a caller inside package ws may drive it: Subscribe
\* with a fresh context, Unsubscribe, the cancel function of a context handed
\* to Subscribe, and the upstream event feed.
HubClients == 1..MaxHubClients

HubInit ==
    /\ hubNil = FALSE
    /\ clients = MaxHubClients
    /\ open = HubClients
    /\ subscriptions = [c \in HubClients |-> EmptyMap]
    /\ made = [c \in HubClients |-> [k \in Keys |-> 0]]
    /\ cancelled = {}
    /\ task = EmptyMap
    /\ subscribers = EmptyMap
    /\ pass = NoPass
    /\ hubSends = [c \in HubClients |-> 0]
    /\ events = 0
    /\ run = Running
    /\ stats = NoStats
    /\ cpu = NoCPU
    /\ frames = NoFrames
    /\ metrics = NoMetrics
    /\ evt = NoEvt
    /\ logLine = NoLogLine
    /\ wire = NoWire
    /\ mem = NoMem
    /\ app = NoApp
    /\ last = NoLast

callVarsOnly == <<hubNil, clients, open, subscriptions, task, hubVars, run, unitVars, last>>

\* subCtx, cancel := context.WithCancel(ctx); hub.Subscribe(subCtx, c)
callSubscribe(c) ==
    /\ WithCancel(c, Str("events", NoID))
    /\ Subscribe(NewCtx(c, Str("events", NoID)), c)
    /\ UNCHANGED cancelled
    /\ UNCHANGED callVarsOnly

\* hub.Unsubscribe(c)
callUnsubscribe(c) ==
    /\ Unsubscribe(c)
    /\ UNCHANGED <<made, cancelled>>
    /\ UNCHANGED callVarsOnly

\* cancel()
callCancel(x) ==
    /\ x \in created \ cancelled
    /\ cancelled' = cancelled \cup {x}
    /\ UNCHANGED <<made, subscribers>>
    /\ UNCHANGED callVarsOnly

HubNext ==
    \/ \E c \in HubClients : callSubscribe(c)
    \/ \E c \in HubClients : callUnsubscribe(c)
    \/ \E x \in created : callCancel(x)
    \/ \E t \in UpstreamTypes, a \in UpstreamActions : listenOnce(t, a)
    \/ \E c \in HubClients : broadcast(c)
    \/ \E err \in BOOLEAN : broadcastSend(err)
    \/ broadcastLock
    \/ broadcastReturn
    \/ listenOnceError
    \/ RunBackoff
    \/ RunCancelled
    \/ cancelRun
    \/ readLoopRead

HubSpec == HubInit /\ [][HubNext]_vars

\* The hub goroutine takes its next step whenever it has one: it goes on
\* through the range, returns when the range is exhausted, wakes up from its
\* pause and notices a cancelled context.  Nothing makes a write to a socket
\* complete while the context of Run is live; wsjson.Write returns once that
\* context is cancelled.
HubFairSpec ==
    /\ HubSpec
    /\ WF_vars(\E c \in HubClients : broadcast(c))
    /\ WF_vars(broadcastLock)
    /\ WF_vars(broadcastReturn)
    /\ WF_vars(RunBackoff)
    /\ WF_vars(RunCancelled)
    /\ WF_vars(run.cancelled /\ \E err \in BOOLEAN : broadcastSend(err))

\* ---- vocabulary of the properties ----
Metrics == Str("metrics", NoID)
Events == Str("events", NoID)
Logs == Str("logs", NoID)

\* A subscribe or unsubscribe for one of the three streams, well formed.
NamesStream(msg) ==
    /\ msg.Type \in {"subscribe", "unsubscribe"}
    /\ ~msg.Payload.bad
    /\ \/ msg.Payload.Stream \in {Metrics, Events}
       \/ msg.Payload.Stream = Logs /\ msg.Payload.ContainerID # NoID
KeyOf(msg) ==
    IF msg.Payload.Stream = Logs THEN Str("logs:", msg.Payload.ContainerID)
    ELSE msg.Payload.Stream
LogKeys(c) == {k \in DOMAIN subscriptions[c] : k.pre = "logs:"}
Closed == (1..clients) \ open
\* Goroutines of key k of client c that run on a context nobody cancelled.
ActiveTasks(c, k) ==
    {x \in DOMAIN task : x.client = c /\ x.key = k /\ task[x] # "returned" /\ x \notin cancelled}
Answered(code) == last'.resp = <<ErrorPayload(code)>>
\* A step of the read loop: it has handled the message last'.msg of the
\* connection last'.client.
Handled == last = NoLast /\ last' # NoLast

\* C1: once a connection is closed (its read loop has exited, for whatever
\* reason), its subscription map is empty and every context made for one of
\* its subscriptions has been cancelled, whatever subscribes and unsubscribes
\* came before.
C1_CloseCancelsAll ==
    \A c \in Closed :
        /\ subscriptions[c] = EmptyMap
        /\ \A x \in created : x.client = c => x \in cancelled

\* C1 witness: a closed connection that had made several contexts, one of
\* whose goroutines has not yet noticed the cancellation.
C1_Witness ==
    \E c \in Closed :
        /\ Cardinality({x \in created : x.client = c}) >= 2
        /\ \E x \in DOMAIN task : x.client = c /\ task[x] = "running"

\* C2: the hub holds no subscriber record of a closed connection, so the
\* hub's subscriber set is never larger than the set of open connections.
C2_HubForgetsClosed ==
    /\ \A c \in DOMAIN subscribers : c \in open
    /\ Cardinality(DOMAIN subscribers) <= Cardinality(open)

\* C3: every key in a connection's subscription map is backed by a goroutine
\* that has not returned or, for "events", by the hub registration made for it.
C3_KeyBacked ==
    \A c \in Clients : \A k \in DOMAIN subscriptions[c] :
        IF k = Events
        THEN c \in DOMAIN subscribers /\ subscribers[c] = subscriptions[c][k]
        ELSE /\ subscriptions[c][k] \in DOMAIN task
             /\ task[subscriptions[c][k]] # "returned"

\* The parts of C4.
C4_DuplicateStep ==
    LET c == last'.client
        msg == last'.msg IN
        (/\ Handled
         /\ msg.Type = "subscribe" /\ NamesStream(msg)
         /\ KeyOf(msg) \in DOMAIN subscriptions[c])
        => /\ Answered("ALREADY_SUBSCRIBED")
           /\ UNCHANGED <<subscriptions, made, task>>
           /\ KeyOf(msg) # Events => Cardinality(ActiveTasks(c, KeyOf(msg))) = 1
\* C4: a subscribe for a key that is already in the map is answered with one
\* ALREADY_SUBSCRIBED error, starts no task, and leaves one map entry and one
\* active task for that key.
C4_Duplicate == [][C4_DuplicateStep]_vars

\* The parts of C5.
C5_AtMostThree == \A c \in Clients : Cardinality(LogKeys(c)) <= 3
C5_FourthStep ==
    LET c == last'.client
        msg == last'.msg IN
        (/\ Handled
         /\ msg.Type = "subscribe" /\ NamesStream(msg) /\ msg.Payload.Stream = Logs
         /\ KeyOf(msg) \notin DOMAIN subscriptions[c]
         /\ Cardinality(LogKeys(c)) = 3)
        => /\ Answered("LIMIT_EXCEEDED")
           /\ UNCHANGED <<subscriptions, cancelled, made, task>>
\* C5: a connection never holds more than 3 "logs:" keys, and a logs
\* subscribe for a new container id that arrives while 3 are held is answered
\* with LIMIT_EXCEEDED and leaves the map and every cancel handle as they were.
C5_LogLimit == []C5_AtMostThree /\ [][C5_FourthStep]_vars

\* C5 witness: the fourth container was just refused while three are held.
C5_Witness ==
    /\ last.resp = <<ErrorPayload("LIMIT_EXCEEDED")>>
    /\ KeyOf(last.msg) \notin DOMAIN subscriptions[last.client]
    /\ Cardinality(LogKeys(last.client)) = 3
    /\ {subscriptions[last.client][k] : k \in LogKeys(last.client)} \cap cancelled = {}

\* The parts of C6.
C6_PresentStep ==
    LET c == last'.client
        msg == last'.msg IN
        (/\ Handled
         /\ msg.Type = "subscribe" /\ NamesStream(msg) /\ msg.Payload.Stream = Logs
         /\ KeyOf(msg) \in DOMAIN subscriptions[c])
        => Answered("ALREADY_SUBSCRIBED")
\* C6: a logs subscribe whose key is already in the map is answered with
\* ALREADY_SUBSCRIBED however many log subscriptions are held.
C6_PresentBeforeLimit == [][C6_PresentStep]_vars

\* The parts of C7.
C7_AbsentStep ==
    LET c == last'.client
        msg == last'.msg IN
        (/\ Handled
         /\ msg.Type = "unsubscribe" /\ ~msg.Payload.bad
         /\ unsubscribeKey(msg.Payload) \notin DOMAIN subscriptions[c])
        => /\ Answered("NOT_SUBSCRIBED")
           /\ UNCHANGED <<open, subscriptions, cancelled, made, task, subscribers>>
\* C7: an unsubscribe for a key that is not in the map is answered with
\* NOT_SUBSCRIBED and changes neither the map, nor any cancellation, nor any
\* task, nor the hub's subscriber set.
C7_UnsubscribeAbsent == [][C7_AbsentStep]_vars

\* C7 witness: NOT_SUBSCRIBED was just sent to a connection that holds other
\* subscriptions, one of them registered with the hub.
C7_Witness ==
    /\ last.resp = <<ErrorPayload("NOT_SUBSCRIBED")>>
    /\ Cardinality(DOMAIN subscriptions[last.client]) >= 2
    /\ last.client \in DOMAIN subscribers

\* The parts of C8.
Acceptable(c, k) ==
    /\ c \in open
    /\ k \notin DOMAIN subscriptions[c]
    /\ k.pre = "logs:" => Cardinality(LogKeys(c)) < 3
    /\ k # Metrics => ~hubNil
C8_Step ==
    LET msg == last'.msg IN
    \A c \in Clients, k \in Keys :
        /\ (/\ Handled /\ last'.client = c
            /\ msg.Type = "unsubscribe" /\ ~msg.Payload.bad
            /\ unsubscribeKey(msg.Payload) = k
            /\ k \in DOMAIN subscriptions[c])
           => /\ last'.resp = <<Unsubscribed(msg.ID)>>
              /\ cancelled' = cancelled \cup {subscriptions[c][k]}
              /\ DOMAIN subscriptions'[c] = (DOMAIN subscriptions[c]) \ {k}
              /\ \A j \in DOMAIN subscriptions'[c] : subscriptions'[c][j] = subscriptions[c][j]
              /\ Acceptable(c, k)'
        /\ (/\ Handled /\ last'.client = c
            /\ msg.Type = "subscribe" /\ NamesStream(msg)
            /\ KeyOf(msg) = k
            /\ Acceptable(c, k))
           => last'.resp = <<Subscribed(msg.ID)>>
\* C8: a successful unsubscribe cancels the one context stored under the key
\* and removes that key only; and a subscribe for a key whose unsubscribe
\* has just been acknowledged is accepted.
C8_UnsubscribeExactlyOne == [][C8_Step]_vars

\* C8 witness: an unsubscribe was just acknowledged on a connection that
\* keeps two other subscriptions, both uncancelled.
C8_Witness ==
    /\ last.resp = <<Unsubscribed(last.msg.ID)>>
    /\ Cardinality(DOMAIN subscriptions[last.client]) >= 2
    /\ Range(subscriptions[last.client]) \cap cancelled = {}

\* C9: once an unsubscribe from "events" is acknowledged, the hub holds no
\* subscriber record of that connection.
C9_HubRecordRemoved ==
    (/\ last.resp = <<Unsubscribed(last.msg.ID)>>
     /\ last.msg.Payload.Stream = Events)
    => last.client \notin DOMAIN subscribers

\* The parts of C10.
C10_SkipStep ==
    \A c \in Clients :
        (/\ pass.active /\ c \in pass.todo /\ c \notin pass'.todo
         /\ subscribers[c] \in cancelled)
        => hubSends'[c] = hubSends[c]
C10_EmptyPassReturns ==
    (pass.active /\ DOMAIN subscribers = {}) => ENABLED broadcastReturn
\* C10: a broadcast pass that reaches a subscriber whose context is already
\* cancelled attempts no send to it, and a pass over an empty subscriber set
\* can return.
C10_BroadcastSkipsCancelled == []C10_EmptyPassReturns /\ [][C10_SkipStep]_vars

\* C10 witness: the pass in progress has gone past a record whose context is
\* cancelled, and the hub has never attempted a send to that connection.
C10_Witness ==
    /\ pass.active
    /\ \E c \in (DOMAIN subscribers) \ pass.todo :
           subscribers[c] \in cancelled /\ hubSends[c] = 0

\* C11: a broadcast pass always comes to its end and releases the read lock,
\* under the stated scheduling of the hub goroutine alone, that is even when
\* the write to one subscriber's socket never completes.
C11_PassTerminates == pass.active ~> ~pass.active

\* The parts of C12.
Registrations == Range(subscribers)
C12_Step ==
    \A c \in HubClients :
        (made'[c][Events] = made[c][Events] + 1 /\ c \in DOMAIN subscribers)
        => Registrations' = Registrations \cup {NewCtx(c, Events)}
\* C12: a second Subscribe for a connection the hub already holds adds a
\* registration with the new context and keeps the one with the first.
C12_TwoRegistrations == [][C12_Step]_vars

\* The parts of C13.
C13_Step ==
    \A c \in HubClients :
        callUnsubscribe(c)
        => /\ c \notin DOMAIN subscribers'
           /\ \A d \in HubClients \ {c} :
                 /\ d \in DOMAIN subscribers' <=> d \in DOMAIN subscribers
                 /\ d \in DOMAIN subscribers => subscribers'[d] = subscribers[d]
           /\ c \notin DOMAIN subscribers => subscribers' = subscribers
           /\ Del(subscribers', c) = subscribers'
\* C13: Unsubscribe of a connection leaves no record of it in the subscriber
\* set and every other record as it was, changes nothing when the connection
\* has no record, and a second Unsubscribe after it changes nothing.
C13_Unsubscribe == [][C13_Step]_vars

\* C13 witness: a connection that Subscribe was called for has no record any
\* more while the records of two others remain.
C13_Witness ==
    \E c \in HubClients :
        /\ made[c][Events] > 0
        /\ c \notin DOMAIN subscribers
        /\ Cardinality(DOMAIN subscribers) >= 2

\* The parts of C14.
C14_FailStep ==
    (pass.sending # 0 /\ pass'.sending = 0 /\ pass.sending \in pass'.failed)
    => /\ subscribers' = subscribers
       /\ pass'.active
       /\ pass'.todo = pass.todo
C14_SetKept == pass.active => subscribers' = subscribers
C14_RestAttempted ==
    (pass.active /\ pass.calling = 0 /\ pass.sending = 0 /\ pass.todo # {})
    => ENABLED (\E c \in pass.todo : broadcast(c))
\* C14: a send that fails during a pass removes no record and leaves the rest
\* of the range to be visited, every record still to visit can be visited, and
\* no step of a pass changes the subscriber set.
C14_FailedSendKeepsAll ==
    []C14_RestAttempted /\ [][C14_FailStep /\ C14_SetKept]_vars

\* C14 witness: the hub is inside a send to one subscriber after the send to
\* another has failed in the same pass, and a third is still to visit.
C14_Witness ==
    /\ pass.failed # {}
    /\ pass.sending \in (DOMAIN subscribers) \ pass.failed
    /\ pass.todo # {}

\* The envelopes of the exchange recorded in last.
Envelopes == Range(last.before) \cup Range(last.resp)

\* The parts of C15.
C15_Step ==
    (Handled /\ last'.msg.Type # "")
    => /\ Len(last'.resp) = 1
       /\ last'.client \in open'
\* C15: whatever envelope comes in, the read loop answers it with one
\* envelope and the connection stays open.
C15_ErrorsKeepOpen == [][C15_Step]_vars

\* The parts of C16.
C16_NilStep ==
    LET msg == last'.msg IN
        (/\ Handled /\ hubNil
         /\ msg.Type = "subscribe" /\ ~msg.Payload.bad /\ msg.Payload.Stream = Events)
        => /\ Answered("NOT_AVAILABLE")
           /\ UNCHANGED <<open, subscriptions, made, cancelled, task, subscribers>>
C16_NeverKey ==
    hubNil => \A c \in Clients :
                 Events \notin DOMAIN subscriptions[c] /\ made[c][Events] = 0
\* C16: with a nil hub reference every events subscribe is answered with
\* NOT_AVAILABLE and changes nothing: no "events" key is ever in a map and no
\* context is ever made for one.
C16_NilHubRegistersNothing == []C16_NeverKey /\ [][C16_NilStep]_vars

\* C16 witness: NOT_AVAILABLE was just sent to a connection that holds its
\* metrics subscription.
C16_Witness ==
    /\ last.resp = <<ErrorPayload("NOT_AVAILABLE")>>
    /\ Metrics \in DOMAIN subscriptions[last.client]
    /\ subscriptions[last.client][Metrics] \notin cancelled

\* C17: every error envelope written to a socket carries one of the eight
\* protocol codes.
C17_FixedCodes ==
    \A e \in Envelopes :
        e.Type = "error"
        => e.Code \in {"UNKNOWN_TYPE", "BAD_PAYLOAD", "UNKNOWN_STREAM", "ALREADY_SUBSCRIBED",
                       "NOT_SUBSCRIBED", "NOT_AVAILABLE", "MISSING_CONTAINER_ID",
                       "LIMIT_EXCEEDED"}

\* C18: nothing the metrics goroutine writes reaches the socket before the
\* acknowledgement of the subscribe that started it.
C18_AckFirst ==
    (/\ last.msg.Type = "subscribe" /\ last.msg.Payload.Stream = Metrics
     /\ last.resp = <<Subscribed(last.msg.ID)>>)
    => last.before = << >>

\* C19: an error envelope that answers a subscribe or an unsubscribe carries
\* the id of that request.
C19_ErrorsEchoID ==
    (/\ last.msg.Type \in {"subscribe", "unsubscribe"}
     /\ Len(last.resp) = 1
     /\ last.resp[1].Type = "error"
     /\ last.resp[1].Code \in {"ALREADY_SUBSCRIBED", "NOT_SUBSCRIBED", "LIMIT_EXCEEDED",
                               "MISSING_CONTAINER_ID", "UNKNOWN_STREAM", "BAD_PAYLOAD",
                               "NOT_AVAILABLE"})
    => last.resp[1].ID = last.msg.ID

\* C20: every subscribed acknowledgement answers a subscribe or an
\* unsubscribe and carries its id, and every push and every pong carries none.
C20_IDs ==
    \A e \in Envelopes :
        /\ e.Type = "subscribed"
           => /\ last.msg.Type \in {"subscribe", "unsubscribe"}
              /\ last.msg.ID # ""
              /\ e.ID = last.msg.ID
        /\ e.Type \in {"metrics", "container_event", "log_line", "container_stats", "pong"}
           => e.ID = ""

\* C20 witness: a subscribe with an id was acknowledged, and a push of the
\* goroutine it started is on the wire as well.
C20_Witness ==
    /\ last.msg.ID # ""
    /\ last.resp = <<Subscribed(last.msg.ID)>>
    /\ last.before = <<Push("metrics")>>

\* The parts of C22.
C22_ReturnsOnlyCancelled == run.pos = "returned" => run.cancelled
C22_ReturnsOnceCancelled == run.cancelled ~> run.pos = "returned"
C22_BackoffEnds == run.pos = "backoff" ~> run.pos \in {"listening", "returned"}
C22_ReopenStep ==
    /\ (run.pos = "backoff" /\ run'.pos # "backoff" /\ ~run.cancelled)
       => run'.pos = "listening" /\ run'.opened = run.opened + 1
    /\ run' # run => subscribers' = subscribers
    /\ (~pass.active /\ pass'.active) => pass'.todo = DOMAIN subscribers
C21_Step ==
    (Handled /\ last'.msg.Type = "ping")
    => /\ last'.resp = <<Pong>>
       /\ UNCHANGED <<open, subscriptions, made, cancelled, task, subscribers, pass,
                      hubSends>>
\* C21: a ping is answered with one pong and changes neither the subscription
\* map, nor any context or task, nor the hub's subscriber set.
C21_PingChangesNothing == [][C21_Step]_vars

\* C21 witness: a pong was just sent to a connection that holds two
\* subscriptions with live contexts, one of them registered with the hub.
C21_Witness ==
    /\ last.resp = <<Pong>>
    /\ Cardinality(DOMAIN subscriptions[last.client]) >= 2
    /\ Range(subscriptions[last.client]) \cap cancelled = {}
    /\ last.client \in DOMAIN subscribers

\* The parts of C27.
C27_Step ==
    LET c == last'.client
        msg == last'.msg IN
    \A k \in {Str("container_stats:", i) : i \in 1..NumContainers} :
        (/\ Handled
         /\ msg.Type = "subscribe" /\ ~msg.Payload.bad
         /\ msg.Payload.Stream = Str("container_stats", NoID)
         /\ msg.Payload.ContainerID = k.id)
        => /\ last'.resp # <<ErrorPayload("UNKNOWN_STREAM")>>
           /\ k \notin DOMAIN subscriptions[last'.client]
              => /\ last'.resp = <<Subscribed(msg.ID)>>
                 /\ k \in DOMAIN subscriptions'[last'.client]
\* C27: a subscribe for the stream "container_stats" with a container id is
\* not answered with UNKNOWN_STREAM; when its key is not held yet it is
\* acknowledged and the key "container_stats:<id>" is put in the map.
C27_StatsStreamKnown == [][C27_Step]_vars

\* C28: a task whose context is not cancelled is the task whose cancel handle
\* the map of its connection stores under its key, so that a connection never
\* has two such tasks for one key.
C28_NoOrphans ==
    /\ \A x \in DOMAIN task :
          x \notin cancelled
          => /\ x.key \in DOMAIN subscriptions[x.client]
             /\ subscriptions[x.client][x.key] = x
    /\ \A c \in Clients, k \in Keys :
          Cardinality({x \in DOMAIN task : x.client = c /\ x.key = k /\ x \notin cancelled}) <= 1

\* C28 witness: after an unsubscribe and a subscribe of the same key, the task
\* of the first subscription has not returned yet and the task of the second
\* is running on the context the map stores.
C28_Witness ==
    \E c \in Clients, k \in Keys :
        /\ made[c][k] = 2
        /\ {Ctx(c, k, 1), Ctx(c, k, 2)} \subseteq DOMAIN task
        /\ Ctx(c, k, 1) \in cancelled /\ task[Ctx(c, k, 1)] # "returned"
        /\ k \in DOMAIN subscriptions[c] /\ subscriptions[c][k] = Ctx(c, k, 2)
        /\ Ctx(c, k, 2) \notin cancelled /\ task[Ctx(c, k, 2)] = "running"

\* The parts of C29.
C29_Step ==
    (/\ last = NoLast /\ last' # NoLast
     /\ Len(last'.before) + Len(last'.resp) > 0
     /\ pass'.sending = pass.sending)
    => pass.sending # last'.client
\* C29: while the hub is inside the write to the socket of a connection, no
\* response of the read loop and no push of an adapter is written to that
\* socket.
C29_WritesExclusive == [][C29_Step]_vars

\* C29 witness: the hub is inside the write to an open connection that has a
\* metrics task with a live context.
C29_Witness ==
    /\ pass.sending \in open
    /\ \E x \in DOMAIN task :
          /\ x.client = pass.sending /\ x.key = Metrics
          /\ task[x] = "running" /\ x \notin cancelled

\* The parts of C30.
C30_Step ==
    \A c \in Clients :
        subscriptions'[c] # subscriptions[c]
        => \/ /\ Handled /\ last'.client = c
              /\ last'.msg.Type \in {"subscribe", "unsubscribe"}
           \/ c \in open /\ c \notin open'
\* C30: the subscription map of a connection changes only in a step of its
\* read loop that handles a subscribe or an unsubscribe, or in the cancelAll
\* that runs when the loop has exited; no step of an adapter or of the hub
\* changes it.
C30_MapOwnedByReadLoop == [][C30_Step]_vars

\* C30 witness: a connection holds three subscriptions while a log follower
\* and the hub's pass are at work for it.
C30_Witness ==
    \E c \in open :
        /\ Cardinality(DOMAIN subscriptions[c]) >= 3
        /\ \E x \in DOMAIN task : x.client = c /\ IsLogsKey(x.key) /\ task[x] = "running"
        /\ pass.active /\ c \in DOMAIN subscribers

\* ---------------------------------------------------------------------
\* calculateCPUPercent on its own (CpuSpec)
\* ---------------------------------------------------------------------

\* The handler with no connection accepted: the state the functions below are
\* exercised in.
NoConnections ==
    /\ hubNil = TRUE
    /\ clients = 0
    /\ open = {}
    /\ subscriptions = [c \in Clients |-> EmptyMap]
    /\ made = [c \in Clients |-> [k \in Keys |-> 0]]
    /\ cancelled = {}
    /\ task = EmptyMap
    /\ subscribers = EmptyMap
    /\ pass = NoPass
    /\ hubSends = [c \in Clients |-> 0]
    /\ events = 0
    /\ run = NoRun
    /\ last = NoLast

connVars == <<hubNil, clients, open, subscriptions, made, cancelled, task,
              subscribers, pass, hubSends, events, run, last>>

\* The cumulative counters are uint64 in the code; the model keeps them
\* CounterBits wide, and subtraction wraps at that width as it does at 64.
CounterBits == 11
Wrap == 2 ^ CounterBits
Counters == {0, 200, 1000, 1200, Wrap - 1}

\* stats.CPUStats / stats.PreCPUStats of one container.StatsResponse;
\* PercpuUsage is the length of the per-CPU slice.
StatsResponses ==
    [TotalUsage : Counters, PreTotalUsage : Counters,
     SystemUsage : Counters, PreSystemUsage : Counters,
     OnlineCPUs : {0, 1, 4}, PercpuUsage : {0, 2}]

\* uint64 subtraction: a - b modulo the width.
Sub(a, b) == (a - b + Wrap) % Wrap

\* A float64 result kept exact, as numerator over denominator.
Zero == [num |-> 0, den |-> 1]

calculateCPUPercent(s) ==
    LET cpuDelta == Sub(s.TotalUsage, s.PreTotalUsage)
        systemDelta == Sub(s.SystemUsage, s.PreSystemUsage)
        numCPUs == IF s.OnlineCPUs # 0 THEN s.OnlineCPUs
                   ELSE IF s.PercpuUsage # 0 THEN s.PercpuUsage
                   ELSE 1
    IN  IF systemDelta <= 0 \/ cpuDelta < 0
        THEN Zero
        ELSE [num |-> cpuDelta * numCPUs * 100, den |-> systemDelta]

CpuInit ==
    /\ NoConnections
    /\ app = NoApp
    /\ mem = NoMem
    /\ wire = NoWire
    /\ logLine = NoLogLine
    /\ evt = NoEvt
    /\ metrics = NoMetrics
    /\ stats = NoStats
    /\ frames = NoFrames
    /\ cpu \in {[pos |-> "sample", in |-> s, result |-> Zero] : s \in StatsResponses}

\* The decoder goroutine computes the percentage of the sample it decoded.
cpuPercent ==
    /\ cpu.pos = "sample"
    /\ cpu' = [cpu EXCEPT !.pos = "computed", !.result = calculateCPUPercent(cpu.in)]
    /\ UNCHANGED <<connVars, app, mem, wire, logLine, evt, metrics, stats, frames>>

CpuNext == cpuPercent

CpuSpec == CpuInit /\ [][CpuNext]_vars

\* C25: the computed CPU percent is 0 when the system delta is zero or when a
\* current counter is below the previous one; otherwise, with a positive
\* number of online CPUs, it is (cpuDelta / systemDelta) * onlineCPUs * 100
\* (200, 1000 and 4 give 80).
C25_ClampedOrProportional ==
    cpu.pos = "computed" =>
        LET s == cpu.in
        IN  IF \/ s.SystemUsage = s.PreSystemUsage
               \/ s.SystemUsage < s.PreSystemUsage
               \/ s.TotalUsage < s.PreTotalUsage
            THEN cpu.result.num = 0
            ELSE s.OnlineCPUs > 0 =>
                   /\ cpu.result.den = s.SystemUsage - s.PreSystemUsage
                   /\ cpu.result.num =
                        (s.TotalUsage - s.PreTotalUsage) * s.OnlineCPUs * 100

\* ---------------------------------------------------------------------
\* streamLogs reading one upstream byte stream (LogSpec)
\* ---------------------------------------------------------------------

\* The upstream stream is a sequence of cells.  A header takes two cells, the
\* stream type and the payload length (header[0] and header[4:8] of the eight
\* bytes in the code); a payload cell is one byte.
MaxFrames == 2
MaxPayload == 3
\* The largest payload streamLogs accepts (1<<20 in the code).
FrameLimit == 2

\* The bytes a payload is made of, by their value: a newline, a space, and a
\* byte that stands for any other character.
NL == 0
SP == 1
CH == 4
Bytes == {NL, SP, CH}

Payloads == UNION {[1..n -> Bytes] : n \in 0..MaxPayload}
Frames == [type : {1, 2}, payload : Payloads]
FrameSeqs == UNION {[1..n -> Frames] : n \in 0..MaxFrames}

\* What the upstream writes for a sequence of frames.
RECURSIVE Encode(_)
Encode(fs) ==
    IF fs = << >> THEN << >>
    ELSE <<Head(fs).type, Len(Head(fs).payload)>> \o Head(fs).payload \o Encode(Tail(fs))

\* strings.TrimRight(line, "\n")
RECURSIVE TrimRight(_)
TrimRight(line) ==
    IF line # << >> /\ line[Len(line)] = NL
    THEN TrimRight(SubSeq(line, 1, Len(line) - 1))
    ELSE line

\* strings.IndexByte(line, ' '), counted from 0; -1 when there is none.
IndexByte(line) ==
    IF \E i \in 1..Len(line) : line[i] = SP
    THEN (CHOOSE i \in 1..Len(line) :
             line[i] = SP /\ \A j \in 1..(i - 1) : line[j] # SP) - 1
    ELSE -1

\* The LogLine built from a header's stream type and a payload.
LogLine(streamType, payload) ==
    LET line == TrimRight(payload)
        idx == IndexByte(line)
    IN  [Stream |-> IF streamType = 2 THEN "stderr" ELSE "stdout",
         Timestamp |-> IF idx > 0 THEN SubSeq(line, 1, idx) ELSE << >>,
         Message |-> IF idx > 0 THEN SubSeq(line, idx + 2, Len(line)) ELSE line]

LogInit ==
    /\ NoConnections
    /\ app = NoApp
    /\ mem = NoMem
    /\ wire = NoWire
    /\ logLine = NoLogLine
    /\ evt = NoEvt
    /\ metrics = NoMetrics
    /\ stats = NoStats
    /\ cpu = NoCPU
    /\ frames \in {[pos |-> "reading", ctxDone |-> FALSE, upstream |-> fs,
                    reader |-> Encode(fs), sent |-> << >>] : fs \in FrameSeqs}

\* A loop iteration of streamLogs that, on a failed read with a live context,
\* opens the upstream stream again instead of returning.
streamLogsFrameReopens(err) ==
    /\ frames.pos = "reading"
    /\ LET in == frames.reader
           streamType == in[1]
           frameSize == in[2]
           rest == SubSeq(in, 3, Len(in))
       IN  IF frames.ctxDone
           THEN frames' = [frames EXCEPT !.pos = "cancelled"]
           ELSE IF Len(in) < 2
           THEN frames' = [frames EXCEPT !.reader = Encode(frames.upstream)]
           ELSE IF frameSize <= 0 \/ frameSize > FrameLimit
           THEN frames' = [frames EXCEPT !.reader = rest]
           ELSE IF Len(rest) < frameSize
           THEN frames' = [frames EXCEPT !.reader = Encode(frames.upstream)]
           ELSE frames' =
                  [frames EXCEPT
                     !.reader = SubSeq(rest, frameSize + 1, Len(rest)),
                     !.sent = IF err THEN @
                              ELSE Append(@, LogLine(streamType,
                                                     SubSeq(rest, 1, frameSize))),
                     !.pos = IF err THEN "sendFailed" ELSE @]
    /\ UNCHANGED <<connVars, app, mem, wire, logLine, evt, metrics, stats, cpu>>

\* One iteration of the loop of streamLogs; err is the outcome of c.send.
streamLogsFrame(err) ==
    /\ frames.pos = "reading"
    /\ LET in == frames.reader
           streamType == in[1]
           frameSize == in[2]
           rest == SubSeq(in, 3, Len(in))
       IN  IF frames.ctxDone
           THEN frames' = [frames EXCEPT !.pos = "cancelled"]
           ELSE IF Len(in) < 2
           THEN frames' = [frames EXCEPT !.pos = "ended", !.reader = << >>]
           ELSE IF frameSize <= 0 \/ frameSize > FrameLimit
           THEN frames' = [frames EXCEPT !.reader = rest]
           ELSE IF Len(rest) < frameSize
           THEN frames' = [frames EXCEPT !.pos = "ended", !.reader = << >>]
           ELSE frames' =
                  [frames EXCEPT
                     !.reader = SubSeq(rest, frameSize + 1, Len(rest)),
                     !.sent = IF err THEN @
                              ELSE Append(@, LogLine(streamType,
                                                     SubSeq(rest, 1, frameSize))),
                     !.pos = IF err THEN "sendFailed" ELSE @]
    /\ UNCHANGED <<connVars, app, mem, wire, logLine, evt, metrics, stats, cpu>>

\* The subscription's context is cancelled (unsubscribe or connection close).
cancelLogs ==
    /\ frames.pos = "reading"
    /\ ~frames.ctxDone
    /\ frames' = [frames EXCEPT !.ctxDone = TRUE]
    /\ UNCHANGED <<connVars, app, mem, wire, logLine, evt, metrics, stats, cpu>>

LogNext ==
    \/ \E err \in BOOLEAN : streamLogsFrame(err)
    \/ cancelLogs

LogSpec == LogInit /\ [][LogNext]_vars

\* The log lines of the frames of a stream whose length is within the bound.
RECURSIVE WellFormedLines(_)
WellFormedLines(fs) ==
    IF fs = << >> THEN << >>
    ELSE (IF Len(Head(fs).payload) > 0 /\ Len(Head(fs).payload) <= FrameLimit
          THEN <<LogLine(Head(fs).type, Head(fs).payload)>>
          ELSE << >>) \o WellFormedLines(Tail(fs))

\* C26: the log follower emits nothing for a frame whose length is
\* non-positive or above the bound, and emits every well-formed frame of the
\* stream, those after a skipped frame included, with its own stream type,
\* timestamp and message: what it has sent is always a prefix of the lines of
\* the well-formed frames, and all of them once the stream has been read to
\* its end.
C26_SkipsAndContinues ==
    frames.pos # "none" =>
        LET want == WellFormedLines(frames.upstream)
        IN  /\ Len(frames.sent) <= Len(want)
            /\ frames.sent = SubSeq(want, 1, Len(frames.sent))
            /\ frames.pos = "ended" => frames.sent = want

\* ---------------------------------------------------------------------
\* One call of streamContainerStats: the adapter and its decoder (StatsSpec)
\* ---------------------------------------------------------------------

\* Samples the upstream stream delivers, and container_stats messages the
\* adapter sends, while the model follows the call.
MaxSamples == 3
MaxSends == 3

\* interval_seconds of a request ranges from IntervalSlack below 0 to
\* IntervalSlack above the largest interval.
IntervalSlack == 2
MinInterval == 1
DefaultInterval == 3
MaxInterval == 30
Requested == (0 - IntervalSlack)..(MaxInterval + IntervalSlack)

\* The interval streamContainerStats gives its ticker.
statsInterval(intervalSeconds) ==
    LET n == IF intervalSeconds < MinInterval THEN DefaultInterval ELSE intervalSeconds
    IN  IF n > MaxInterval THEN MaxInterval ELSE n

\* stats.ch is statsCh (capacity 1); dec is the position of the decoder
\* goroutine and payload the sample it is handing over; con is the position
\* of the adapter; latest is 0 for nil; closed is reader.Close() having run.
StatsInit ==
    /\ NoConnections
    /\ app = NoApp
    /\ mem = NoMem
    /\ wire = NoWire
    /\ logLine = NoLogLine
    /\ evt = NoEvt
    /\ metrics = NoMetrics
    /\ cpu = NoCPU
    /\ frames = NoFrames
    /\ stats \in {[pos |-> "call", con |-> "opening", dec |-> "none", ch |-> << >>,
                  payload |-> 0, latest |-> 0, fresh |-> FALSE, ctxDone |-> FALSE,
                  upstream |-> "live", closed |-> FALSE, decoded |-> 0,
                  sent |-> << >>, requested |-> n, interval |-> 0]
                    : n \in {0, DefaultInterval, MaxInterval + 1}}

statsVarsOnly == <<connVars, app, mem, wire, logLine, evt, metrics, cpu, frames>>

\* The adapter returns: the deferred reader.Close() runs.
statsReturn(s) == [s EXCEPT !.con = "returned", !.closed = TRUE]

\* The clamp of the interval and dockerClient.ContainerStats; on failure the
\* error envelope and return, otherwise the decoder goroutine is started.
streamContainerStats(opened) ==
    /\ stats.con = "opening"
    /\ LET s == [stats EXCEPT !.interval = statsInterval(stats.requested)]
       IN  stats' = IF opened
                    THEN [s EXCEPT !.con = "initial", !.dec = "decode"]
                    ELSE [s EXCEPT !.con = "returned",
                                   !.sent = Append(@, "STATS_STREAM_ERROR")]
    /\ UNCHANGED statsVarsOnly

\* The upstream stream ends, or delivers something that does not decode.
statsUpstreamEnds ==
    /\ stats.con \in {"initial", "loop"}
    /\ stats.upstream = "live"
    /\ stats' = [stats EXCEPT !.upstream = "ended"]
    /\ UNCHANGED statsVarsOnly

\* The subscription's context is cancelled.
cancelStats ==
    /\ stats.con \in {"initial", "loop"}
    /\ ~stats.ctxDone
    /\ stats' = [stats EXCEPT !.ctxDone = TRUE]
    /\ UNCHANGED statsVarsOnly

\* decoder.Decode(&stats): the next sample, or an error and the goroutine
\* returns (stream ended, reader closed or context cancelled).
statsDecode ==
    /\ stats.dec = "decode"
    /\ IF stats.upstream = "ended" \/ stats.closed \/ stats.ctxDone
       THEN stats' = [stats EXCEPT !.dec = "returned"]
       ELSE /\ stats.decoded < MaxSamples
            /\ stats' = [stats EXCEPT !.dec = "select", !.decoded = @ + 1,
                                      !.payload = stats.decoded + 1]
    /\ UNCHANGED statsVarsOnly

\* select { case statsCh <- payload: ... default: ... }
statsHandOff ==
    /\ stats.dec = "select"
    /\ stats' = IF stats.ch = << >>
                THEN [stats EXCEPT !.ch = <<stats.payload>>, !.dec = "decode"]
                ELSE [stats EXCEPT !.dec = "drain"]
    /\ UNCHANGED statsVarsOnly

\* default: <-statsCh (blocks while the channel is empty)
statsDrain ==
    /\ stats.dec = "drain"
    /\ stats.ch # << >>
    /\ stats' = [stats EXCEPT !.ch = << >>, !.dec = "put"]
    /\ UNCHANGED statsVarsOnly

\* default: statsCh <- payload (blocks while the channel is full)
statsPut ==
    /\ stats.dec = "put"
    /\ stats.ch = << >>
    /\ stats' = [stats EXCEPT !.ch = <<stats.payload>>, !.dec = "decode"]
    /\ UNCHANGED statsVarsOnly

\* The first select of the adapter: the first sample is sent at once; err is
\* the outcome of c.send.
statsInitial(err) ==
    /\ stats.con = "initial"
    /\ \/ /\ stats.ctxDone
          /\ stats' = statsReturn(stats)
       \/ /\ stats.ch # << >>
          /\ Len(stats.sent) < MaxSends
          /\ LET got == [stats EXCEPT !.ch = << >>, !.latest = stats.ch[1]]
             IN  stats' = IF err THEN statsReturn(got)
                          ELSE [got EXCEPT !.con = "loop", !.fresh = FALSE,
                                           !.sent = Append(@, got.latest)]
    /\ UNCHANGED statsVarsOnly

\* The loop of the adapter: case <-ctx.Done()
statsLoopDone ==
    /\ stats.con = "loop"
    /\ stats.ctxDone
    /\ stats' = statsReturn(stats)
    /\ UNCHANGED statsVarsOnly

\* The loop of the adapter: case p := <-statsCh
statsLoopReceive ==
    /\ stats.con = "loop"
    /\ stats.ch # << >>
    /\ stats' = [stats EXCEPT !.ch = << >>, !.latest = stats.ch[1], !.fresh = TRUE]
    /\ UNCHANGED statsVarsOnly

\* The loop of the adapter: case <-ticker.C
statsLoopTick(err) ==
    /\ stats.con = "loop"
    /\ Len(stats.sent) < MaxSends
    /\ stats' = IF stats.latest = 0 THEN stats
                ELSE IF err THEN statsReturn(stats)
                ELSE [stats EXCEPT !.fresh = FALSE, !.sent = Append(@, stats.latest)]
    /\ UNCHANGED statsVarsOnly

StatsNext ==
    \/ \E opened \in BOOLEAN : streamContainerStats(opened)
    \/ statsUpstreamEnds
    \/ cancelStats
    \/ statsDecode
    \/ statsHandOff
    \/ statsDrain
    \/ statsPut
    \/ \E err \in BOOLEAN : statsInitial(err)
    \/ statsLoopDone
    \/ statsLoopReceive
    \/ \E err \in BOOLEAN : statsLoopTick(err)

StatsSpec == StatsInit /\ [][StatsNext]_vars

\* C23: the decoder never blocks on the consumer: whenever it stands at the
\* receive that makes room in the slot, or at the send that follows it, the
\* operation can complete, and when the hand-off is done the slot holds the
\* sample just handed over; and once the adapter has returned the decoder is
\* not left waiting on the channel.
C23_DecoderNeverBlocks ==
    /\ stats.dec = "drain" => stats.ch # << >>
    /\ stats.dec = "put" => stats.ch = << >>

\* The parts of C24.
C24_Step ==
    (/\ stats.dec = "returned" /\ stats.upstream = "ended" /\ ~stats.ctxDone
     /\ stats.ch = << >> /\ ~stats.fresh)
    => stats'.sent = stats.sent
\* C24: when the upstream stats stream has ended and the decoder has returned,
\* the follower sends no further container_stats message: once the slot is
\* empty and the last sample received has been sent, no step sends it again.
C24_FollowerEnds == [][C24_Step]_vars

\* ---------------------------------------------------------------------
\* One call of streamMetrics (MetricsSpec)
\* ---------------------------------------------------------------------

\* MaxTicks ticks of the ticker are followed.
MaxTicks == 3

\* The clamp of streamMetrics without its upper limit.
metricsIntervalNoCeiling(intervalSeconds) ==
    IF intervalSeconds < MinInterval THEN DefaultInterval ELSE intervalSeconds

\* The interval streamMetrics gives its ticker.
metricsInterval(intervalSeconds) ==
    LET n == IF intervalSeconds < MinInterval THEN DefaultInterval ELSE intervalSeconds
    IN  IF n > MaxInterval THEN MaxInterval ELSE n

\* metrics.round is the outcome of the last call of sendMetrics: "sent",
\* "collectFailed" (metrics.Collect returned an error) or "sendFailed".
MetricsInit ==
    /\ NoConnections
    /\ app = NoApp
    /\ mem = NoMem
    /\ wire = NoWire
    /\ logLine = NoLogLine
    /\ evt = NoEvt
    /\ stats = NoStats
    /\ cpu = NoCPU
    /\ frames = NoFrames
    /\ metrics \in {[pos |-> "entry", requested |-> n, interval |-> 0,
                     ctxDone |-> FALSE, ticks |-> 0, sent |-> 0, round |-> "none"]
                       : n \in Requested}

metricsVarsOnly == <<connVars, app, mem, wire, logLine, evt, stats, cpu, frames>>

\* sendMetrics as a function of the state of the call: collected is
\* metrics.Collect succeeding and err the outcome of c.send; on a cancelled
\* context one of the two fails.
sendMetricsOnce(m, collected, err) ==
    IF ~collected THEN [m EXCEPT !.round = "collectFailed"]
    ELSE IF err \/ m.ctxDone THEN [m EXCEPT !.round = "sendFailed"]
    ELSE [m EXCEPT !.round = "sent", !.sent = @ + 1]

\* streamMetrics from its entry to its loop: the clamp, the ticker and the
\* initial snapshot.
metricsStart(collected, err) ==
    /\ metrics.pos = "entry"
    /\ metrics' = sendMetricsOnce(
                     [metrics EXCEPT !.pos = "loop",
                                     !.interval = metricsInterval(metrics.requested)],
                     collected, err)
    /\ UNCHANGED metricsVarsOnly

\* A tick that ends the task when the snapshot could not be collected.
metricsTickStopsOnFailure(collected, err) ==
    /\ metrics.pos = "loop"
    /\ metrics.ticks < MaxTicks
    /\ metrics' = sendMetricsOnce(
                     [metrics EXCEPT !.ticks = @ + 1,
                                     !.pos = IF collected THEN @ ELSE "returned"],
                     collected, err)
    /\ UNCHANGED metricsVarsOnly

\* case <-ticker.C: sendMetrics(ctx, c)
metricsTick(collected, err) ==
    /\ metrics.pos = "loop"
    /\ metrics.ticks < MaxTicks
    /\ metrics' = sendMetricsOnce([metrics EXCEPT !.ticks = @ + 1], collected, err)
    /\ UNCHANGED metricsVarsOnly

\* case <-ctx.Done(): return
metricsDone ==
    /\ metrics.pos = "loop"
    /\ metrics.ctxDone
    /\ metrics' = [metrics EXCEPT !.pos = "returned"]
    /\ UNCHANGED metricsVarsOnly

\* The subscription's context is cancelled.
cancelMetrics ==
    /\ metrics.pos \in {"entry", "loop"}
    /\ ~metrics.ctxDone
    /\ metrics' = [metrics EXCEPT !.ctxDone = TRUE]
    /\ UNCHANGED metricsVarsOnly

MetricsNext ==
    \/ \E collected, err \in BOOLEAN : metricsStart(collected, err)
    \/ \E collected, err \in BOOLEAN : metricsTick(collected, err)
    \/ metricsDone
    \/ cancelMetrics

MetricsSpec == MetricsInit /\ [][MetricsNext]_vars

\* The goroutine of streamMetrics is scheduled, and a select whose ctx.Done
\* case stays ready takes it.
MetricsFairSpec ==
    /\ MetricsSpec
    /\ WF_vars(\E collected, err \in BOOLEAN : metricsStart(collected, err))
    /\ WF_vars(metricsDone)

\* The parts of C31.
C31_Round == metrics.pos = "entry" \/ metrics'.ticks # metrics.ticks
C31_Step ==
    /\ C31_Round =>
          /\ metrics'.round = "sent" => metrics'.sent = metrics.sent + 1
          /\ metrics'.round # "sent" => metrics'.sent = metrics.sent
          /\ metrics'.round = "collectFailed" => metrics'.pos = "loop"
          /\ ~metrics.ctxDone => metrics'.round # "sendFailed" \/ metrics'.pos = "loop"
    /\ ~C31_Round => metrics'.sent = metrics.sent
    /\ metrics'.pos = "returned" /\ metrics.pos # "returned" => metrics.ctxDone
IntervalInit ==
    /\ NoConnections
    /\ app = NoApp
    /\ mem = NoMem
    /\ wire = NoWire
    /\ logLine = NoLogLine
    /\ evt = NoEvt
    /\ cpu = NoCPU
    /\ frames = NoFrames
    /\ \E m \in Requested :
          metrics = [pos |-> "entry", requested |-> m, interval |-> 0,
                     ctxDone |-> FALSE, ticks |-> 0, sent |-> 0, round |-> "none"]
    /\ \E n \in Requested :
          stats = [pos |-> "call", con |-> "opening", dec |-> "none", ch |-> << >>,
                   payload |-> 0, latest |-> 0, fresh |-> FALSE, ctxDone |-> FALSE,
                   upstream |-> "live", closed |-> FALSE, decoded |-> 0,
                   sent |-> << >>, requested |-> n, interval |-> 0]

IntervalNext ==
    \/ \E collected, err \in BOOLEAN : metricsStart(collected, err)
    \/ \E opened \in BOOLEAN : streamContainerStats(opened)

IntervalSpec == IntervalInit /\ [][IntervalNext]_vars

\* The interval the specification gives for a requested interval_seconds.
Clamped(n) == IF n < 1 THEN 3 ELSE IF n > 30 THEN 30 ELSE n

\* C32: the interval a metrics task or a container-stats task runs with is
\* within 1..30 for every requested interval_seconds: 3 for a value below 1
\* (absent is 0), 30 for a value above 30, the value itself otherwise.
C32_IntervalClamped ==
    /\ metrics.pos = "loop" =>
          /\ metrics.interval \in 1..30
          /\ metrics.interval = Clamped(metrics.requested)
    /\ stats.con \in {"initial", "returned"} =>
          /\ stats.interval \in 1..30
          /\ stats.interval = Clamped(stats.requested)

\* C32 witness: both tasks have started, one with a request above 30 and
\* one with a request below 1.
C32_Witness ==
    /\ metrics.pos = "loop" /\ metrics.requested > 30
    /\ stats.con = "initial" /\ stats.requested < 1

\* ---------------------------------------------------------------------
\* One upstream message through listenOnce and broadcast (EventSpec)
\* ---------------------------------------------------------------------

\* Actor ids are up to IDSlack characters longer than the length broadcast
\* keeps; a character is a number.
IDSlack == 2
IDLength == 12
ActorIDs == {[i \in 1..n |-> i + c] : n \in 0..(IDLength + IDSlack), c \in {0, 1}}
EventTypes == {"container", "image", "network"}
EventActions == allowedActions \cup {"exec_start", "health_status", "pull", ""}
EventSubscribers == {1, 2}

\* min(12, len(msg.Actor.ID))
Min(a, b) == IF a < b THEN a ELSE b

\* The ContainerEvent of broadcast that carries the whole actor id.
ContainerEventWholeID(msg) ==
    [Action |-> msg.Action, ContainerID |-> msg.ActorID, Status |-> msg.Action]

\* The ContainerEvent broadcast builds from an upstream message.
ContainerEvent(msg) ==
    [Action |-> msg.Action,
     ContainerID |-> SubSeq(msg.ActorID, 1, Min(IDLength, Len(msg.ActorID))),
     Status |-> msg.Action]

\* evt.done is the set of subscribers whose context is cancelled; evt.sent is
\* what was written to each subscriber's socket.
EventInit ==
    /\ NoConnections
    /\ app = NoApp
    /\ mem = NoMem
    /\ wire = NoWire
    /\ logLine = NoLogLine
    /\ stats = NoStats
    /\ cpu = NoCPU
    /\ frames = NoFrames
    /\ metrics = NoMetrics
    /\ evt \in {[pos |-> "received",
                 msg |-> [Type |-> t, Action |-> a, ActorID |-> id],
                 done |-> d,
                 sent |-> [s \in EventSubscribers |-> << >>]]
                  : t \in EventTypes, a \in EventActions, id \in ActorIDs,
                    d \in SUBSET EventSubscribers}

\* case msg := <-msgCh of listenOnce without the test of msg.Type.
listenOnceMessageAnyType(failing) ==
    /\ evt.pos = "received"
    /\ evt' = IF evt.msg.Action \in allowedActions
              THEN [evt EXCEPT
                      !.pos = "handled",
                      !.sent = [s \in EventSubscribers |->
                                  IF s \in evt.done \/ s \in failing THEN evt.sent[s]
                                  ELSE Append(evt.sent[s], ContainerEvent(evt.msg))]]
              ELSE [evt EXCEPT !.pos = "handled"]
    /\ UNCHANGED <<connVars, app, mem, wire, logLine, stats, cpu, frames, metrics>>

\* case msg := <-msgCh of listenOnce, and the broadcast it calls; failing is
\* the set of subscribers whose write fails.
listenOnceMessage(failing) ==
    /\ evt.pos = "received"
    /\ evt' = IF evt.msg.Type = "container" /\ evt.msg.Action \in allowedActions
              THEN [evt EXCEPT
                      !.pos = "handled",
                      !.sent = [s \in EventSubscribers |->
                                  IF s \in evt.done \/ s \in failing THEN evt.sent[s]
                                  ELSE Append(evt.sent[s], ContainerEvent(evt.msg))]]
              ELSE [evt EXCEPT !.pos = "handled"]
    /\ UNCHANGED <<connVars, app, mem, wire, logLine, stats, cpu, frames, metrics>>

EventNext == \E failing \in SUBSET EventSubscribers : listenOnceMessage(failing)

EventSpec == EventInit /\ [][EventNext]_vars

\* The state changes that mean a container: the actions the specification
\* lists.
StateChanges == {"start", "stop", "die", "kill", "restart", "create", "destroy"}

\* C33: a subscriber is sent something only for a container-scoped event
\* whose action is start, stop, die, kill, restart, create or destroy; every
\* other upstream event is sent to nobody; the container id of a delivered
\* event is the first 12 characters of the actor id, or the whole id when it
\* is shorter.
C33_FilteredAndTruncated ==
    evt.pos = "handled" =>
        \A s \in EventSubscribers :
            /\ ~(evt.msg.Type = "container" /\ evt.msg.Action \in StateChanges)
                 => evt.sent[s] = << >>
            /\ \A i \in 1..Len(evt.sent[s]) :
                 LET e == evt.sent[s][i]
                     id == evt.msg.ActorID
                 IN  /\ e.Action = evt.msg.Action
                     /\ Len(e.ContainerID) = (IF Len(id) < 12 THEN Len(id) ELSE 12)
                     /\ \A k \in 1..Len(e.ContainerID) : e.ContainerID[k] = id[k]

\* C33 witness: an event with an actor id longer than 12 characters has been
\* delivered to a subscriber.
C33_Witness ==
    /\ evt.pos = "handled"
    /\ Len(evt.msg.ActorID) > 12
    /\ \E s \in EventSubscribers : evt.sent[s] # << >>

\* The read of a header or of a payload fails: the stream holds fewer cells
\* than io.ReadFull asks for.
ReadFails ==
    \/ Len(frames.reader) < 2
    \/ /\ frames.reader[2] > 0 /\ frames.reader[2] <= FrameLimit
       /\ Len(frames.reader) - 2 < frames.reader[2]

\* The parts of C34.
C34_Step ==
    /\ (/\ frames.pos = "reading" /\ (ReadFails \/ frames.ctxDone)
        /\ frames'.ctxDone = frames.ctxDone)
         => /\ frames'.pos \in {"ended", "cancelled"}
            /\ frames'.sent = frames.sent
            /\ frames.ctxDone => frames'.pos = "cancelled"
    /\ frames.pos \in {"ended", "cancelled"} => frames' = frames
\* C34: a log follower whose read fails returns in that step of its loop
\* without sending anything, silently when its context is cancelled, and a follower
\* that has returned is never started again: it reads and sends no more.
C34_EndsAndStaysEnded == [][C34_Step]_vars

\* C34 witness: a follower that had sent a line has returned on a failed
\* read with its context live.
C34_Witness ==
    /\ frames.pos = "ended" /\ ~frames.ctxDone
    /\ frames.sent # << >>

\* ---------------------------------------------------------------------
\* The LogLine streamLogs builds from one frame (LineSpec)
\* ---------------------------------------------------------------------

\* Payloads of up to MaxLine bytes, under each value of header[0].
MaxLine == 4
StreamTypes == {0, 1, 2}
LinePayloads == UNION {[1..n -> Bytes] : n \in 0..MaxLine}

LineInit ==
    /\ NoConnections
    /\ app = NoApp
    /\ mem = NoMem
    /\ wire = NoWire
    /\ stats = NoStats
    /\ cpu = NoCPU
    /\ frames = NoFrames
    /\ metrics = NoMetrics
    /\ evt = NoEvt
    /\ logLine \in {[pos |-> "read", streamType |-> t, payload |-> p,
                     out |-> LogLine(0, << >>)] : t \in StreamTypes, p \in LinePayloads}

\* The part of the loop of streamLogs between the read of the payload and
\* the send.
buildLogLine ==
    /\ logLine.pos = "read"
    /\ logLine' = [logLine EXCEPT !.pos = "built",
                                  !.out = LogLine(logLine.streamType, logLine.payload)]
    /\ UNCHANGED <<connVars, app, mem, wire, stats, cpu, frames, metrics, evt>>

LineNext == buildLogLine

LineSpec == LineInit /\ [][LineNext]_vars

\* A payload without its trailing newlines, and the place of the first space
\* of a line (0 when it has none).
Stripped(p) ==
    LET keep == {i \in 0..Len(p) : \A j \in (i + 1)..Len(p) : p[j] = NL}
        k == CHOOSE i \in keep : \A j \in keep : i <= j
    IN  SubSeq(p, 1, k)
FirstSpace(l) ==
    IF \A i \in 1..Len(l) : l[i] # SP THEN 0
    ELSE CHOOSE i \in 1..Len(l) : l[i] = SP /\ \A j \in 1..(i - 1) : l[j] # SP

\* C35: for every payload the log line has the trailing newline stripped, is
\* of stream "stderr" exactly when the stream-type byte is 2 and "stdout"
\* otherwise, has the text before the first space as its timestamp and the
\* text after it as its message, and, when there is no space, an empty
\* timestamp and the whole line as its message.
C35_LineFields ==
    logLine.pos = "built" =>
        LET l == Stripped(logLine.payload)
            sp == FirstSpace(l)
        IN  /\ logLine.out.Stream = (IF logLine.streamType = 2 THEN "stderr" ELSE "stdout")
            /\ sp = 0 => logLine.out.Timestamp = << >> /\ logLine.out.Message = l
            /\ sp > 0 => /\ logLine.out.Timestamp = SubSeq(l, 1, sp - 1)
                         /\ logLine.out.Message = SubSeq(l, sp + 1, Len(l))

\* ---------------------------------------------------------------------
\* Three producers writing to one connection (OrderSpec)
\* ---------------------------------------------------------------------

\* Each producer is one goroutine: the follower of one container's logs, the
\* metrics task, and the hub for its events.  MaxItems items are followed per
\* producer.
MaxItems == 2
Producers == {"log_line", "metrics", "container_event"}

\* wire.made is the number of items a producer has produced (frames read,
\* ticks taken, events received); wire.holding is the item it is sending, 0
\* when it is not in client.send; wire.mu is the producer inside c.mu;
\* wire.written is what reached the socket.
OrderInit ==
    /\ NoConnections
    /\ app = NoApp
    /\ mem = NoMem
    /\ stats = NoStats
    /\ cpu = NoCPU
    /\ frames = NoFrames
    /\ metrics = NoMetrics
    /\ evt = NoEvt
    /\ logLine = NoLogLine
    /\ wire = [pos |-> "open", made |-> [p \in Producers |-> 0],
               holding |-> [p \in Producers |-> 0], mu |-> "", written |-> << >>]

wireVarsOnly == <<connVars, app, mem, stats, cpu, frames, metrics, evt, logLine>>

\* A producer that takes its next item while the one before is still being
\* sent by a goroutine of its own, which the new item overtakes.
produceDetached(p) ==
    /\ wire.made[p] < MaxItems
    /\ wire.mu # p
    /\ wire' = [wire EXCEPT !.made[p] = @ + 1, !.holding[p] = wire.made[p] + 1,
                            !.written = IF wire.holding[p] # 0
                                        THEN Append(@, [Type |-> p, n |-> wire.made[p] + 1])
                                        ELSE @]
    /\ UNCHANGED wireVarsOnly

\* The producer's loop takes its next item (io.ReadFull, <-ticker.C, <-msgCh)
\* and calls client.send with it.
produce(p) ==
    /\ wire.made[p] < MaxItems
    /\ wire.holding[p] = 0
    /\ wire' = [wire EXCEPT !.made[p] = @ + 1, !.holding[p] = wire.made[p] + 1]
    /\ UNCHANGED wireVarsOnly

\* client.send: c.mu.Lock()
sendLock(p) ==
    /\ wire.holding[p] # 0
    /\ wire.mu = ""
    /\ wire' = [wire EXCEPT !.mu = p]
    /\ UNCHANGED wireVarsOnly

\* client.send: wsjson.Write and the deferred c.mu.Unlock(); err is the
\* outcome of the write.
sendWrite(p, err) ==
    /\ wire.mu = p
    /\ wire' = [wire EXCEPT !.mu = "", !.holding[p] = 0,
                            !.written = IF err THEN @
                                        ELSE Append(@, [Type |-> p, n |-> wire.holding[p]])]
    /\ UNCHANGED wireVarsOnly

OrderNext ==
    \/ \E p \in Producers : produce(p)
    \/ \E p \in Producers : sendLock(p)
    \/ \E p \in Producers, err \in BOOLEAN : sendWrite(p, err)

OrderSpec == OrderInit /\ [][OrderNext]_vars

\* C36: the messages of one stream are written to the socket in the order
\* they were produced: of two messages of the same stream, the one written
\* later was produced later.
C36_StreamOrder ==
    wire.pos = "open" =>
        \A i, j \in 1..Len(wire.written) :
            (i < j /\ wire.written[i].Type = wire.written[j].Type)
            => wire.written[i].n < wire.written[j].n

\* C36 witness: two messages of each stream have been written, interleaved
\* with those of another stream.
C36_Witness ==
    /\ wire.pos = "open"
    /\ \A p \in Producers :
          Cardinality({i \in 1..Len(wire.written) : wire.written[i].Type = p}) = 2
    /\ wire.written[1].Type # wire.written[2].Type

\* The parts of C37.
C37_Step ==
    \A c \in Clients :
        (/\ Handled /\ last'.client = c
         /\ last'.resp = <<Push("container_event")>>)
        => Events \in DOMAIN subscriptions[c]
\* C37: a container_event is written to a connection only while the
\* connection holds its events subscription: once the acknowledgement of an
\* events unsubscribe has been written, none is written until the connection
\* subscribes to events again.
C37_NoEventAfterUnsubscribe == [][C37_Step]_vars

\* ---------------------------------------------------------------------
\* The memory figures of a container-stats sample (MemSpec)
\* ---------------------------------------------------------------------

\* stats.MemoryStats of one sample: Usage and Limit, and Stats["cache"] with
\* hasCache telling whether the key is present.  The uint64 values are kept
\* CounterBits wide, as the CPU counters are.
MemoryStats ==
    [Usage : Counters, hasCache : BOOLEAN, cache : Counters, Limit : Counters]

\* memUsed, memLimit and memPercent of the payload; the percentage is kept
\* exact, as numerator over denominator.
memoryFigures(m) ==
    LET memUsed == IF m.hasCache THEN Sub(m.Usage, m.cache) ELSE m.Usage
    IN  [MemUsedBytes |-> memUsed,
         MemLimitBytes |-> m.Limit,
         MemPercent |-> IF m.Limit > 0 THEN [num |-> memUsed * 100, den |-> m.Limit]
                        ELSE Zero]

MemInit ==
    /\ NoConnections
    /\ app = NoApp
    /\ stats = NoStats
    /\ cpu = NoCPU
    /\ frames = NoFrames
    /\ metrics = NoMetrics
    /\ evt = NoEvt
    /\ logLine = NoLogLine
    /\ wire = NoWire
    /\ mem \in {[pos |-> "sample", in |-> m, out |-> memoryFigures(
                     [Usage |-> 0, hasCache |-> FALSE, cache |-> 0, Limit |-> 0])]
                  : m \in MemoryStats}

\* The decoder goroutine fills the memory fields of the payload.
memoryFields ==
    /\ mem.pos = "sample"
    /\ mem' = [mem EXCEPT !.pos = "computed", !.out = memoryFigures(mem.in)]
    /\ UNCHANGED <<connVars, app, stats, cpu, frames, metrics, evt, logLine, wire>>

MemNext == memoryFields

MemSpec == MemInit /\ [][MemNext]_vars

\* C38: the memory-used bytes of a sample are the usage minus the page-cache
\* bytes when a cache figure is present, the usage otherwise, and never above
\* the usage, whatever the values, a cache above the usage included; the
\* memory percent is 0 when the limit is 0.
C38_MemUsed ==
    mem.pos = "computed" =>
        /\ mem.out.MemUsedBytes <= mem.in.Usage
        /\ (mem.in.hasCache /\ mem.in.cache <= mem.in.Usage)
             => mem.out.MemUsedBytes = mem.in.Usage - mem.in.cache
        /\ ~mem.in.hasCache => mem.out.MemUsedBytes = mem.in.Usage
        /\ mem.in.Limit = 0 => mem.out.MemPercent.num = 0

\* ---------------------------------------------------------------------
\* The mobile client: WebSocketClient.kt (AppSpec)
\* ---------------------------------------------------------------------

\* Sockets okHttpClient.newWebSocket creates, and calls of a subscribe
\* function, while the model follows the client; the subscription keys it
\* uses.
MaxSockets == 3
MaxSubscribes == 2
Sockets == 1..MaxSockets
SubscriptionKeys == {"metrics", "events"}

\* app.state is _connectionState; app.webSocket is the field (0 for null);
\* app.socks gives each socket created its status: "connecting", "open",
\* "closing" (close called, onClosed not yet delivered) or "done"; app.sent is
\* the subscribe messages written to each socket; app.timers counts the
\* coroutines of scheduleReconnect that are in their delay.
AppInit ==
    /\ NoConnections
    /\ stats = NoStats
    /\ cpu = NoCPU
    /\ frames = NoFrames
    /\ metrics = NoMetrics
    /\ evt = NoEvt
    /\ logLine = NoLogLine
    /\ wire = NoWire
    /\ mem = NoMem
    /\ app = [pos |-> "created", state |-> "DISCONNECTED", webSocket |-> 0,
              shouldReconnect |-> FALSE, reconnectAttempt |-> 0,
              activeSubscriptions |-> {}, socks |-> << >>,
              sent |-> [s \in Sockets |-> << >>], timers |-> 0,
              subscribes |-> 0, disconnected |-> FALSE]

appVarsOnly == <<connVars, stats, cpu, frames, metrics, evt, logLine, wire, mem>>

\* send(message): webSocket?.send(text); a message given to a socket that is
\* not connecting or open is dropped by the socket.
appSend(a, keys) ==
    IF a.webSocket # 0 /\ a.socks[a.webSocket] \in {"connecting", "open"}
    THEN [a EXCEPT !.sent[a.webSocket] = @ \o keys]
    ELSE a

\* The keys of a set in some order.
RECURSIVE InOrder(_)
InOrder(S) ==
    IF S = {} THEN << >>
    ELSE LET k == CHOOSE k \in S : TRUE IN <<k>> \o InOrder(S \ {k})

doConnect(a) ==
    LET id == Len(a.socks) + 1
    IN  [a EXCEPT !.state = "CONNECTING", !.socks = Append(@, "connecting"),
                  !.webSocket = id]

scheduleReconnect(a) ==
    IF ~a.shouldReconnect THEN a
    ELSE [a EXCEPT !.reconnectAttempt = @ + 1, !.timers = @ + 1]

connect ==
    /\ app.state = "DISCONNECTED"
    /\ Len(app.socks) < MaxSockets
    /\ app' = doConnect([app EXCEPT !.shouldReconnect = TRUE, !.reconnectAttempt = 0,
                                    !.disconnected = FALSE])
    /\ UNCHANGED appVarsOnly

disconnect ==
    /\ app' = [app EXCEPT
                 !.shouldReconnect = FALSE,
                 !.socks = IF app.webSocket # 0
                              /\ app.socks[app.webSocket] \in {"connecting", "open"}
                           THEN [@ EXCEPT ![app.webSocket] = "closing"]
                           ELSE @,
                 !.webSocket = 0,
                 !.state = "DISCONNECTED",
                 !.disconnected = TRUE]
    /\ UNCHANGED appVarsOnly

\* subscribeMetrics, subscribeEvents, ...
subscribe(k) ==
    /\ k \notin app.activeSubscriptions
    /\ app.subscribes < MaxSubscribes
    /\ app' = appSend([app EXCEPT !.activeSubscriptions = @ \cup {k},
                                  !.subscribes = @ + 1], <<k>>)
    /\ UNCHANGED appVarsOnly

\* unsubscribeMetrics, unsubscribeEvents, ...: the unsubscribe message is not
\* recorded in app.sent.
unsubscribe(k) ==
    /\ k \in app.activeSubscriptions
    /\ app' = [app EXCEPT !.activeSubscriptions = @ \ {k}]
    /\ UNCHANGED appVarsOnly

\* The listener's onOpen, with replaySubscriptions.
onOpen(s) ==
    /\ s \in DOMAIN app.socks /\ app.socks[s] = "connecting"
    /\ app' = appSend([app EXCEPT !.socks[s] = "open", !.state = "CONNECTED",
                                  !.reconnectAttempt = 0],
                      InOrder(app.activeSubscriptions))
    /\ UNCHANGED appVarsOnly

\* The listener's onClosed: the close the client asked for has completed, or
\* the server closed and onClosing answered it.
onClosed(s) ==
    /\ s \in DOMAIN app.socks /\ app.socks[s] \in {"open", "closing"}
    /\ app' = scheduleReconnect([app EXCEPT !.socks[s] = "done",
                                            !.state = "DISCONNECTED"])
    /\ UNCHANGED appVarsOnly

\* The listener's onFailure.
onFailure(s) ==
    /\ s \in DOMAIN app.socks /\ app.socks[s] \in {"connecting", "open", "closing"}
    /\ app' = scheduleReconnect([app EXCEPT !.socks[s] = "done",
                                            !.state = "DISCONNECTED"])
    /\ UNCHANGED appVarsOnly

\* The coroutine of scheduleReconnect after its delay.
reconnect ==
    /\ app.timers > 0
    /\ (app.shouldReconnect /\ app.state = "DISCONNECTED") => Len(app.socks) < MaxSockets
    /\ LET a == [app EXCEPT !.timers = @ - 1]
       IN  app' = IF app.shouldReconnect /\ app.state = "DISCONNECTED"
                  THEN doConnect(a) ELSE a
    /\ UNCHANGED appVarsOnly

AppNext ==
    \/ connect
    \/ disconnect
    \/ \E k \in SubscriptionKeys : subscribe(k)
    \/ \E k \in SubscriptionKeys : unsubscribe(k)
    \/ \E s \in Sockets : onOpen(s)
    \/ \E s \in Sockets : onClosed(s)
    \/ \E s \in Sockets : onFailure(s)
    \/ reconnect

AppSpec == AppInit /\ [][AppNext]_vars

\* The sockets of the client that are open.
OpenSockets == {s \in DOMAIN app.socks : app.socks[s] = "open"}

\* The parts of C39.
C39_OneSocket == app.pos = "created" => Cardinality(OpenSockets) <= 1
C39_Step ==
    /\ \A s \in Sockets :
          (s \in DOMAIN app.socks /\ app.socks[s] = "connecting"
             /\ app'.socks[s] = "open")
          => \E order \in {InOrder(app.activeSubscriptions)} :
                app'.sent[s] = app.sent[s] \o order
    /\ (app.activeSubscriptions # app'.activeSubscriptions)
          => app'.socks = app.socks
    /\ (app.disconnected /\ app'.disconnected) => Len(app'.socks) = Len(app.socks)
\* C39: every socket of the mobile client that opens is sent one subscribe
\* for each key of the active-subscription set, which disconnect() leaves as
\* it is; after disconnect() no socket is created until connect() is called;
\* and at most one socket of the client is open at any time.
C39_ClientSockets == []C39_OneSocket /\ [][C39_Step]_vars

====
